---- MODULE Spec2Model ----
(***************************************************************************)
(* A model of codablellm's parallel extraction pipeline:                   *)
(*   - Progress (core/dashboard.py): the completed / errors counters;      *)
(*   - ProcessPoolProgress (core/dashboard.py): the worker pool, its       *)
(*     completion callbacks and its pull operation __next__;               *)
(*   - the checkpoint store (core/utils.py) and the extraction             *)
(*     result-collection loop that uses it (core/extractor.py).            *)
(* Floats (rich's completed counter, the advance amounts) are fixed-point  *)
(* numbers counted in 1/FloatUnit.                                         *)
(***************************************************************************)
EXTENDS Integers, Sequences, FiniteSets, TLC

\* ------------------------------------------------------------- bounds
NumItems == 3       \* items of one batch handed to ProcessPoolProgress
FloatUnit == 2      \* fixed-point denominator of the modelled floats
MaxOps == 3         \* operations of one sequential Progress session
MaxAmount == 4      \* largest advance / update argument, in 1/FloatUnit
MaxCkOps == 3       \* save / load calls of one checkpoint store session
MaxRuns == 2        \* extraction runs, each ended by a return, an error or a crash
MaxCheckpoint == 2  \* largest checkpoint interval of a run

VARIABLES
    \* ProcessPoolProgress
    outcome,        \* item -> what submit(item) does: "raise", "falsy", "truthy"
    futures,        \* item -> state of its Future
    registered,     \* item -> callback appended to the Future's _done_callbacks
    cbpc,           \* thread -> position inside callback()
    cbitem,         \* thread -> the future callback() was called with
    tmp,            \* thread -> self.errors as read in Progress.advance
    new_results,    \* self._new_results: the ready-queue (items name results)
    mainpc,         \* position of the thread that uses the pool
    regk,           \* index of the add_done_callback loop
    appended,       \* history: results in the order callbacks appended them
    yielded,        \* history: results in the order __next__ returned them
    submits,        \* history: item -> number of executor.submit calls made for it
    calls,          \* history: item -> number of times its callback was called
    \* Progress
    completed,      \* task.completed, in 1/FloatUnit
    errors,         \* task.fields['errors']
    refCompleted,   \* reference counter, in 1/FloatUnit
    refErrors,      \* reference counter, in 1/FloatUnit
    nops,           \* operations done in the sequential Progress session
    lastOp,         \* history: the last Progress operation and the counters before it
    \* checkpoint store
    files,          \* the temporary directory: checkpoint file name -> its JSON array
    ckHist,         \* history: the save / load calls made, with the directory before
    \* _CallableExtractor.get_results
    runpc,          \* position of the extraction run
    runs,           \* runs started so far
    config,         \* the run's pid, checkpoint, use_checkpoint and transform
    results,        \* the list get_results accumulates
    todo,           \* files whose result the pool has not yielded yet
    functions,      \* what is left of the sequence the pool yielded last
    loaded,         \* history: how many results the run loaded at its start
    saves,          \* history: checkpoint saves the run has completed
    skipped,        \* history: the functions of the run whose transform raised
    batch,          \* history: the files the run's pool was given to submit
    prevRun,        \* history: how the run before this one ended, and its saves
    \* SourceCodeDataset / DecompiledCodeDataset._from_dataset_and_decompiled
    source_functions,      \* the functions a SourceCodeDataset is built from
    decompiled_functions,  \* the decompiled functions, in the order supplied
    stripped,              \* the strip flag
    source_dataset,        \* the SourceCodeDataset: its items in insertion order
    potential_mappings,    \* function name -> the source functions of that name
    mappings,              \* the (decompiled function, SourceCodeDataset) pairs
    dk,                    \* index of the loop over decompiled_functions
    dataset,               \* the DecompiledCodeDataset returned
    corrpc,                \* position of the correlation
    \* ProcessPoolProgress.multi_progress
    mpOutcome,      \* pool -> item -> what the item's task does: "raise", "result"
    mpFuture,       \* pool -> item -> state of the item's Future
    mpNew,          \* pool -> the pool's _new_results
    mpGot,          \* pool -> the list get_results has pulled so far
    sinks,          \* pool -> the results deque passed with the pool
    drvpc,          \* pool -> position of the pool's driver get_results(pool, results)
    multiFlag,      \* pool -> pool.pool._multi_progress
    ownProgress,    \* pool -> state of the pool's own Progress display
    rows,           \* the pools whose Progress is a row of the table
    live,           \* state of the Live display of the table
    synpc,          \* position of the thread inside multi_progress
    bodyRaised,     \* the caller's block ended with an exception
    \* repoman.manage / execute_command
    phase,          \* phase of manage
    cmdpc,          \* position inside execute_command
    command,        \* the command execute_command was called with
    error_handler,  \* the error_handler execute_command was called with
    manage_args,    \* the arguments of manage
    cmdRuns,        \* history: command -> calls of subprocess.run
    cmdFailed,      \* history: command -> a run raised CalledProcessError
    prompts,        \* history: prompts issued
    bodyRan,        \* history: the body of the with statement has run
    responses,      \* history: command -> the responses given to its prompts
    manage_config,  \* the ManageConfig the caller has built
    bodyEnded,      \* history: the body ended by normal control flow
    \* ExtractConfig / _CallableExtractor construction
    ctorpc,         \* position of the construction
    ctor_args,      \* the arguments given
    raisedAt,       \* where a ValueError was raised
    submitted,      \* items submitted to the pool
    \* SourceFunction
    fn,             \* the record the last operation produced, if any
    fnPrev,         \* history: the record the last operation was applied to
    fnOp,           \* history: the last operation
    fnRaised,       \* history: the exception the last operation raised
    fnArgs,         \* history: the byte range the last construction was given
    \* DecompiledFunction.to_stripped
    strpc,             \* position inside to_stripped
    strip_definition,  \* the definition: the function symbols the query matches
    strip_assembly,    \* the assembly text
    symbol_mapping,    \* original symbol -> placeholder, in insertion order
    idx,               \* index of the loop of match_and_edit
    strip_input,       \* history: definition and assembly of the record stripped first
    strip_pass,        \* history: calls of to_stripped completed
    strip_name,        \* the name of the record at hand
    uuids,             \* uuid.uuid4() calls made so far
    \* decompiler
    the_decompiler,    \* _decompiler: the registered decompiler
    old_decompiler,    \* set: the local old_decompiler
    setpc,             \* position inside set
    setArgs,           \* history: the registration the last set was called with
    setResult,         \* history: how the last set ended
    setBefore,         \* history: the registration before the last set
    nsets,             \* calls of set made so far
    decpc,             \* position inside decompile_task
    binOutcome,        \* binary -> what decompiler.decompile(bin) does
    taskState,         \* binary -> state of its task
    collectk,          \* index of the loop over the futures
    decompiled,        \* the list decompile_task builds
    ndec               \* calls of decompile made so far

poolVars == <<outcome, futures, registered, cbpc, cbitem, tmp, new_results,
              mainpc, regk, appended, yielded, submits, calls>>
progressVars == <<completed, errors>>
refVars == <<refCompleted, refErrors, nops, lastOp>>
ckVars == <<files, ckHist>>
exVars == <<runpc, runs, config, results, todo, functions, loaded, saves, prevRun,
            skipped, batch>>
corrVars == <<source_functions, decompiled_functions, stripped, source_dataset,
              potential_mappings, mappings, dk, dataset, corrpc>>
mpVars == <<mpOutcome, mpFuture, mpNew, mpGot, sinks, drvpc, multiFlag, ownProgress,
            rows, live, synpc, bodyRaised>>
lcVars == <<phase, cmdpc, command, error_handler, manage_args, cmdRuns, cmdFailed,
            prompts, bodyRan, responses, manage_config, bodyEnded>>
ctorVars == <<ctorpc, ctor_args, raisedAt, submitted>>
fnVars == <<fn, fnPrev, fnOp, fnRaised, fnArgs>>
stripVars == <<strpc, strip_definition, strip_assembly, symbol_mapping, idx,
               strip_input, strip_pass, strip_name, uuids>>
decVars == <<the_decompiler, old_decompiler, setpc, setArgs, setResult, setBefore,
             nsets, decpc, binOutcome, taskState, collectk, decompiled, ndec>>
otherVars == <<ctorVars, fnVars, stripVars, decVars>>
baseVars == <<poolVars, progressVars, refVars, ckVars, exVars, corrVars, mpVars, lcVars>>
moreVars == <<corrVars, mpVars, lcVars, otherVars>>
vars == <<poolVars, progressVars, refVars, ckVars, exVars, moreVars>>

\* ------------------------------------------------------------ Progress

\* int(advance): truncation toward zero of a float given in 1/FloatUnit
IntOf(a) == IF a >= 0 THEN a \div FloatUnit ELSE -((-a) \div FloatUnit)

\* rich's Progress.advance(task, advance): task.completed += advance, under its lock
AdvanceCompleted(c, a) == c + a

\* faulty variant: round(advance) in place of int(advance)
AdvanceErrorsRounds(e, a) == e + ((2 * a + FloatUnit) \div (2 * FloatUnit))

\* Progress.advance(errors=True): self.update(errors=self.errors + int(advance)),
\* e is the value self.errors returned
AdvanceErrors(e, a) == e + IntOf(a)

ProgressInit ==
    /\ completed = 0
    /\ errors = 0

RefIdle ==
    /\ refCompleted = 0
    /\ refErrors = 0
    /\ nops = 0
    /\ lastOp = [op |-> "none"]

\* ---------------------------------------------------- ProcessPoolProgress

Items == 1..NumItems
Outcomes == {"raise", "falsy", "truthy"}
Threads == {"main", "executor"}

\* any(self._new_results): some queued result is truthy
AnyResults(q) == \E k \in 1..Len(q) : outcome[q[k]] = "truthy"

\* all(f.done() for f in self._futures)
AllDone == \A i \in Items : futures[i] \in {"finished", "cancelled"}

PoolInit ==
    /\ outcome \in [Items -> Outcomes]
    /\ futures = [i \in Items |-> "unsubmitted"]
    /\ registered = [i \in Items |-> FALSE]
    /\ cbpc = [t \in Threads |-> "none"]
    /\ cbitem = [t \in Threads |-> 0]
    /\ tmp = [t \in Threads |-> 0]
    /\ new_results = <<>>
    /\ mainpc = "enter"
    /\ regk = 1
    /\ appended = <<>>
    /\ yielded = <<>>
    /\ submits = [i \in Items |-> 0]
    /\ calls = [i \in Items |-> 0]

\* __enter__: the list comprehension runs through the whole iterable (a lazily
\* produced one is consumed here) and submits every item to the executor
Enter ==
    /\ mainpc = "enter"
    /\ futures' = [i \in Items |-> "pending"]
    /\ submits' = [i \in Items |-> submits[i] + 1]
    /\ mainpc' = "register"
    /\ UNCHANGED <<calls, outcome, registered, cbpc, cbitem, tmp, new_results, regk,
                   appended, yielded, progressVars, refVars, ckVars, exVars, moreVars>>

\* the executor's thread sets a task's result or exception: the Future is done,
\* and the callbacks registered so far are then called by this thread
SetResult(i) ==
    /\ cbpc["executor"] = "none"
    /\ futures[i] = "pending"
    /\ futures' = [futures EXCEPT ![i] = "finished"]
    /\ IF registered[i]
       THEN /\ cbpc' = [cbpc EXCEPT !["executor"] = "run"]
            /\ cbitem' = [cbitem EXCEPT !["executor"] = i]
            /\ calls' = [calls EXCEPT ![i] = @ + 1]
       ELSE UNCHANGED <<cbpc, cbitem, calls>>
    /\ UNCHANGED <<submits, outcome, registered, tmp, new_results, mainpc, regk,
                   appended, yielded, progressVars, refVars, ckVars, exVars, moreVars>>

CalledAtOnceAlways(state) == TRUE

\* Future.add_done_callback: the callback of a Future already done is called
\* at once by the registering thread
CalledAtOnce(state) == state \in {"finished", "cancelled"}

\* future.add_done_callback(callback) of the loop in __enter__: a Future not
\* yet done keeps the callback in its list of callbacks
AddDoneCallback ==
    /\ mainpc = "register"
    /\ cbpc["main"] = "none"
    /\ regk <= NumItems
    /\ IF CalledAtOnce(futures[regk])
       THEN /\ cbpc' = [cbpc EXCEPT !["main"] = "run"]
            /\ cbitem' = [cbitem EXCEPT !["main"] = regk]
            /\ calls' = [calls EXCEPT ![regk] = @ + 1]
       ELSE UNCHANGED <<cbpc, cbitem, calls>>
    /\ registered' = [registered EXCEPT
                         ![regk] = futures[regk] \notin {"finished", "cancelled"}]
    /\ regk' = regk + 1
    /\ UNCHANGED <<submits, outcome, futures, tmp, new_results, mainpc, appended,
                   yielded, progressVars, refVars, ckVars, exVars, moreVars>>

\* __enter__ returns self; the caller starts to iterate
EnterReturn ==
    /\ mainpc = "register"
    /\ cbpc["main"] = "none"
    /\ regk > NumItems
    /\ mainpc' = "check_done"
    /\ UNCHANGED <<submits, calls, outcome, futures, registered, cbpc, cbitem, tmp, new_results,
                   regk, appended, yielded, progressVars, refVars, ckVars, exVars, moreVars>>

\* future.cancel() on a task that has not started, called by the thread that
\* uses the pool between two pulls: the Future is cancelled, and its
\* callbacks are then called by this thread
Cancel(i) ==
    /\ mainpc = "check_done"
    /\ cbpc["main"] = "none"
    /\ futures[i] = "pending"
    /\ futures' = [futures EXCEPT ![i] = "cancelled"]
    /\ IF registered[i]
       THEN /\ cbpc' = [cbpc EXCEPT !["main"] = "run"]
            /\ cbitem' = [cbitem EXCEPT !["main"] = i]
            /\ calls' = [calls EXCEPT ![i] = @ + 1]
       ELSE UNCHANGED <<cbpc, cbitem, calls>>
    /\ UNCHANGED <<submits, outcome, registered, tmp, new_results, mainpc, regk,
                   appended, yielded, progressVars, refVars, ckVars, exVars, moreVars>>

CallbackBranchIgnoresCancelled(state, oc) ==
    IF oc = "raise" THEN "error" ELSE "result"

\* callback(future): if not future.cancelled(): exception = future.exception();
\* if exception: ... else: ...
CallbackBranch(state, oc) ==
    CASE state = "cancelled" -> "return"
      [] oc = "raise" -> "error"
      [] OTHER -> "result"

\* callback(future), up to its first access to shared state: a raised task
\* reads self.errors (Progress.advance), a successful one appends its result
Callback(t) ==
    /\ cbpc[t] = "run"
    /\ LET branch == CallbackBranch(futures[cbitem[t]], outcome[cbitem[t]])
       IN CASE branch = "return" ->
                 /\ cbpc' = [cbpc EXCEPT ![t] = "none"]
                 /\ UNCHANGED <<tmp, new_results, appended>>
            [] branch = "error" ->
                 /\ tmp' = [tmp EXCEPT ![t] = errors]
                 /\ cbpc' = [cbpc EXCEPT ![t] = "update_errors"]
                 /\ UNCHANGED <<new_results, appended>>
            [] OTHER ->
                 /\ new_results' = Append(new_results, cbitem[t])
                 /\ appended' = Append(appended, cbitem[t])
                 /\ cbpc' = [cbpc EXCEPT ![t] = "advance"]
                 /\ UNCHANGED tmp
    /\ UNCHANGED <<submits, calls, outcome, futures, registered, cbitem, mainpc, regk, yielded,
                   progressVars, refVars, ckVars, exVars, moreVars>>

\* callback: self.update(errors=<value read> + int(advance)), advance = 1
CallbackUpdateErrors(t) ==
    /\ cbpc[t] = "update_errors"
    /\ errors' = AdvanceErrors(tmp[t], FloatUnit)
    /\ cbpc' = [cbpc EXCEPT ![t] = "none"]
    /\ UNCHANGED <<submits, calls, outcome, futures, registered, cbitem, tmp, new_results,
                   mainpc, regk, appended, yielded, completed, refVars, ckVars, exVars, moreVars>>

\* callback: self._progress.advance() after the append, advance = 1
CallbackAdvance(t) ==
    /\ cbpc[t] = "advance"
    /\ completed' = AdvanceCompleted(completed, FloatUnit)
    /\ cbpc' = [cbpc EXCEPT ![t] = "none"]
    /\ UNCHANGED <<submits, calls, outcome, futures, registered, cbitem, tmp, new_results,
                   mainpc, regk, appended, yielded, errors, refVars, ckVars, exVars, moreVars>>

\* __next__: not all(f.done() for f in self._futures), the left operand of "or"
NextCheckDone ==
    /\ mainpc = "check_done"
    /\ cbpc["main"] = "none"
    /\ mainpc' = IF ~AllDone THEN "wait" ELSE "check_any"
    /\ UNCHANGED <<submits, calls, outcome, futures, registered, cbpc, cbitem, tmp, new_results,
                   regk, appended, yielded, progressVars, refVars, ckVars, exVars, moreVars>>

\* __next__: any(self._new_results), the right operand; StopIteration otherwise
NextCheckAny ==
    /\ mainpc = "check_any"
    /\ mainpc' = IF AnyResults(new_results) THEN "wait" ELSE "exit"
    /\ UNCHANGED <<submits, calls, outcome, futures, registered, cbpc, cbitem, tmp, new_results,
                   regk, appended, yielded, progressVars, refVars, ckVars, exVars, moreVars>>

\* __next__: while not any(self._new_results): time.sleep(0.1)
NextWait ==
    /\ mainpc = "wait"
    /\ AnyResults(new_results)
    /\ mainpc' = "pop"
    /\ UNCHANGED <<submits, calls, outcome, futures, registered, cbpc, cbitem, tmp, new_results,
                   regk, appended, yielded, progressVars, refVars, ckVars, exVars, moreVars>>

\* list.pop(): the index of the element __next__ returns
PopIndex(q) == Len(q)

\* __next__: return self._new_results.pop(); the consumer then pulls again
NextPop ==
    /\ mainpc = "pop"
    /\ yielded' = Append(yielded, new_results[PopIndex(new_results)])
    /\ new_results' = [k \in 1..(Len(new_results) - 1) |->
                          IF k < PopIndex(new_results) THEN new_results[k]
                          ELSE new_results[k + 1]]
    /\ mainpc' = "check_done"
    /\ UNCHANGED <<submits, calls, outcome, futures, registered, cbpc, cbitem, tmp, regk,
                   appended, progressVars, refVars, ckVars, exVars, moreVars>>

\* __exit__: the executor's shutdown waits for every task and its callbacks
Exit ==
    /\ mainpc = "exit"
    /\ AllDone
    /\ cbpc["executor"] = "none"
    /\ mainpc' = "done"
    /\ UNCHANGED <<submits, calls, outcome, futures, registered, cbpc, cbitem, tmp, new_results,
                   regk, appended, yielded, progressVars, refVars, ckVars, exVars, moreVars>>

\* ------------------------------------- Progress used by a single thread

\* an Optional argument: None, or a value
None == <<>>
Some(v) == <<v>>
Amounts == 0..MaxAmount
Whole == {a \in Amounts : a % FloatUnit = 0}

\* utils.resolve_kwargs(errors=errors): the keyword is passed on unless it is None;
\* rich then stores it with task.fields.update(fields)
ResolveKwargs(e, field) == IF e # None THEN e[1] ELSE field

\* rich's update(completed=...): if completed is not None: task.completed = completed
SetCompleted(c, field) == IF c # None THEN c[1] ELSE field

\* Progress.advance(errors, advance) called by the only thread that uses the tracker
Advance(isError, a) ==
    /\ nops < MaxOps
    /\ IF ~isError
       THEN /\ completed' = AdvanceCompleted(completed, a)
            /\ UNCHANGED errors
       ELSE /\ errors' = AdvanceErrors(errors, a)
            /\ UNCHANGED completed
    /\ refCompleted' = IF isError THEN refCompleted ELSE refCompleted + a
    /\ refErrors' = IF isError THEN refErrors + a ELSE refErrors
    /\ lastOp' = [op |-> "advance", isError |-> isError, n |-> a,
                  completed |-> completed, errors |-> errors]
    /\ nops' = nops + 1
    /\ UNCHANGED <<poolVars, ckVars, exVars, moreVars>>

\* Progress.update(completed=c, errors=e); errors is a whole number
Update(c, e) ==
    /\ nops < MaxOps
    /\ completed' = SetCompleted(c, completed)
    /\ errors' = ResolveKwargs(e, errors)
    /\ refCompleted' = IF c = None THEN refCompleted ELSE c[1]
    /\ refErrors' = IF e = None THEN refErrors ELSE e[1] * FloatUnit
    /\ lastOp' = [op |-> "update", c |-> c, e |-> e,
                  completed |-> completed, errors |-> errors]
    /\ nops' = nops + 1
    /\ UNCHANGED <<poolVars, ckVars, exVars, moreVars>>

PoolIdle ==
    /\ outcome = [i \in Items |-> "truthy"]
    /\ futures = [i \in Items |-> "unsubmitted"]
    /\ registered = [i \in Items |-> FALSE]
    /\ cbpc = [t \in Threads |-> "none"]
    /\ cbitem = [t \in Threads |-> 0]
    /\ tmp = [t \in Threads |-> 0]
    /\ new_results = <<>>
    /\ mainpc = "idle"
    /\ regk = 1
    /\ appended = <<>>
    /\ yielded = <<>>
    /\ submits = [i \in Items |-> 0]
    /\ calls = [i \in Items |-> 0]

\* ----------------------------------------------------- Function records

SourceFiles == {"a.c", "b.c"}
FunctionNames == {"f", "g"}

\* SourceFunction.from_source: uid "<file>::name" is the pair <<file, name>>
SourceFunction(file, name) ==
    [type |-> "SourceFunction", uid |-> <<file, name>>, path |-> file, name |-> name]

\* faulty variant: the uid is written with its parts swapped
ToJsonSwapsUid(r) ==
    [type |-> "dict", uid |-> <<r.uid[2], r.uid[1]>>, path |-> r.path, name |-> r.name]

\* SourceFunction.to_json: a dict with the record's fields, the path as a string
ToJson(r) == [type |-> "dict", uid |-> r.uid, path |-> r.path, name |-> r.name]

\* [c.to_json() for c in contents]; a dict has no to_json
HasToJson(x) == x.type # "dict"
ToJsonList(items) == [k \in 1..Len(items) |-> ToJson(items[k])]

Records == {SourceFunction(file, name) : file \in SourceFiles, name \in FunctionNames}

\* ------------------------------------------------------ checkpoint store

\* EXTRACTOR_CHECKPOINT_PREFIX = 'codablellm_extractor'; prefixes are the words
\* that "_" joins
EXTRACTOR_CHECKPOINT_PREFIX == <<"codablellm", "extractor">>
Prefixes == {EXTRACTOR_CHECKPOINT_PREFIX, <<"codablellm">>}
Pids == {1, 2}

\* get_checkpoint_file(prefix): <tempdir>/<prefix>_<os.getpid()>.json
GetCheckpointFile(prefix, pid) == [prefix |-> prefix, pid |-> pid]

\* glob(f'{prefix}_*'): the file names that start with prefix and "_"
GlobMatches(prefix, name) ==
    /\ Len(prefix) <= Len(name.prefix)
    /\ SubSeq(name.prefix, 1, Len(prefix)) = prefix

\* get_checkpoint_files(prefix)
GetCheckpointFiles(fs, prefix) == {n \in DOMAIN fs : GlobMatches(prefix, n)}

\* faulty variant: the file is opened for appending
WriteTextAppends(fs, name, text) ==
    [n \in DOMAIN fs \cup {name} |->
        IF n = name THEN (IF n \in DOMAIN fs THEN fs[n] \o text ELSE text) ELSE fs[n]]

\* checkpoint_file.write_text(json.dumps(...)): the file is created or replaced
WriteText(fs, name, text) ==
    [n \in DOMAIN fs \cup {name} |-> IF n = name THEN text ELSE fs[n]]

\* checkpoint_file.unlink(missing_ok=True) for each file of names
Unlink(fs, names) == [n \in DOMAIN fs \ names |-> fs[n]]

\* the orders in which glob may list a set of files
Orderings(S) ==
    {o \in [1..Cardinality(S) -> S] : \A j, k \in DOMAIN o : j # k => o[j] # o[k]}

RECURSIVE ExtendAll(_, _, _)
\* checkpoint_data.extend(json.loads(file.read_text())) for the files in order o
ExtendAll(fs, o, k) ==
    IF k > Len(o) THEN <<>> ELSE fs[o[k]] \o ExtendAll(fs, o, k + 1)

\* faulty variant: delete_on_load is ignored
FilesAfterLoadKeeps(fs, prefix, delete_on_load) == fs

\* the directory after load_checkpoint_data(prefix, delete_on_load)
FilesAfterLoad(fs, prefix, delete_on_load) ==
    IF delete_on_load THEN Unlink(fs, GetCheckpointFiles(fs, prefix)) ELSE fs

\* extractor.load_checkpoint_data passes delete_on_load=True
ExtractorDeleteOnLoad == TRUE

CheckpointInit ==
    /\ files = [n \in {} |-> <<>>]
    /\ ckHist = <<>>

\* utils.save_checkpoint_file(prefix, contents) called by process pid
SaveCheckpointFile(prefix, pid, contents) ==
    /\ Len(ckHist) < MaxCkOps
    /\ \A k \in 1..Len(contents) : HasToJson(contents[k])
    /\ files' = WriteText(files, GetCheckpointFile(prefix, pid), ToJsonList(contents))
    /\ ckHist' = Append(ckHist, [op |-> "save", prefix |-> prefix, pid |-> pid,
                                 contents |-> contents, before |-> files])
    /\ UNCHANGED <<poolVars, progressVars, refVars, exVars, moreVars>>

\* utils.load_checkpoint_data(prefix, delete_on_load)
LoadCheckpointData(prefix, delete_on_load) ==
    /\ Len(ckHist) < MaxCkOps
    /\ \E o \in Orderings(GetCheckpointFiles(files, prefix)) :
          ckHist' = Append(ckHist, [op |-> "load", prefix |-> prefix,
                                    delete_on_load |-> delete_on_load,
                                    returned |-> ExtendAll(files, o, 1),
                                    before |-> files])
    /\ files' = FilesAfterLoad(files, prefix, delete_on_load)
    /\ UNCHANGED <<poolVars, progressVars, refVars, exVars, moreVars>>

SavedLists ==
    {<<>>} \cup {<<r>> : r \in Records}
           \cup {<<SourceFunction("a.c", "f"), SourceFunction(file, "g")>> : file \in SourceFiles}

\* ---------------------------------------- _CallableExtractor.get_results

\* extractor.extract(file) for the files of the source tree
Extract(file) ==
    IF file = "a.c" THEN <<SourceFunction("a.c", "f"), SourceFunction("a.c", "g")>>
    ELSE <<SourceFunction(file, "f")>>

\* the transform of a run: None, or a callable that may raise
Transforms == {"None", "callable"}

ExtractIdle ==
    /\ runpc = "idle"
    /\ runs = 0
    /\ config = [pid |-> 1, checkpoint |-> 0, use_checkpoint |-> FALSE,
                 transform |-> "None"]
    /\ results = <<>>
    /\ todo = {}
    /\ functions = <<>>
    /\ loaded = 0
    /\ saves = 0
    /\ prevRun = [end |-> "idle", saves |-> 0]
    /\ skipped = <<>>
    /\ batch = {}

\* self.checkpoint > 0 and len(results) % self.checkpoint == 0
CheckpointDue(checkpoint, rs) == checkpoint > 0 /\ Len(rs) % checkpoint = 0

FilesToSubmitSkipsLoaded(rs) ==
    {file \in SourceFiles : \A k \in 1..Len(rs) : rs[k].path # file}

\* _CallableExtractor.__init__ gives the pool generate_extractors_and_files(path):
\* every extractable file of the tree, whatever the checkpoints hold
FilesToSubmit(rs) == SourceFiles

AfterTransformErrorRaises(rest) == "failed"

\* except Exception: logger.warning(...); continue: the loop goes on with the
\* next function, or with the pool when the sequence is exhausted
AfterTransformError(rest) == IF rest = <<>> THEN "pool" ELSE "function"

\* a run starts (after the run before it returned, failed or was killed):
\* get_results loads the checkpoints when use_checkpoint is set, then iterates
GetResults(pid, checkpoint, use_checkpoint, transform) ==
    /\ runpc \in {"idle", "returned", "failed", "crashed"}
    /\ runs < MaxRuns
    /\ runs' = runs + 1
    /\ prevRun' = [end |-> runpc, saves |-> saves]
    /\ config' = [pid |-> pid, checkpoint |-> checkpoint,
                  use_checkpoint |-> use_checkpoint, transform |-> transform]
    /\ IF use_checkpoint
       THEN /\ \E o \in Orderings(GetCheckpointFiles(files, EXTRACTOR_CHECKPOINT_PREFIX)) :
                  results' = ExtendAll(files, o, 1)
            /\ files' = FilesAfterLoad(files, EXTRACTOR_CHECKPOINT_PREFIX,
                                       ExtractorDeleteOnLoad)
       ELSE /\ results' = <<>>
            /\ UNCHANGED files
    /\ loaded' = Len(results')
    /\ saves' = 0
    /\ todo' = FilesToSubmit(results')
    /\ batch' = todo'
    /\ skipped' = <<>>
    /\ functions' = <<>>
    /\ runpc' = "pool"
    /\ UNCHANGED <<poolVars, progressVars, refVars, ckHist, moreVars>>

\* for functions in self.pool: the pool yields the result of one more file
PoolYield(file) ==
    /\ runpc = "pool"
    /\ file \in todo
    /\ todo' = todo \ {file}
    /\ functions' = Extract(file)
    /\ runpc' = IF Extract(file) = <<>> THEN "pool" ELSE "function"
    /\ UNCHANGED <<poolVars, progressVars, refVars, ckVars, moreVars, runs, config, prevRun,
                   skipped, batch,
                   results,
                   loaded, saves>>

FilesAtReturnRemovesOwn(fs, name) == Unlink(fs, {name})

\* return results: get_results ends without touching the checkpoint files
FilesAtReturn(fs, name) == fs

\* for functions in self.pool: the pool signals end-of-sequence, which __next__
\* can do before every result was yielded; return results
PoolStop ==
    /\ runpc = "pool"
    /\ runpc' = "returned"
    /\ files' = FilesAtReturn(files, GetCheckpointFile(EXTRACTOR_CHECKPOINT_PREFIX,
                                                       config.pid))
    /\ UNCHANGED <<poolVars, progressVars, refVars, ckHist, moreVars, runs, config, prevRun,
                   skipped, batch,
                   results,
                   todo, functions, loaded, saves>>

\* one pass of "for function in functions": transform, append, checkpoint
ForFunction(transformRaises) ==
    /\ runpc = "function"
    /\ functions' = Tail(functions)
    /\ IF config.transform # "None" /\ transformRaises
       THEN /\ runpc' = AfterTransformError(Tail(functions))
            /\ skipped' = Append(skipped, Head(functions))
            /\ UNCHANGED <<results, files, saves>>
       ELSE /\ results' = Append(results, Head(functions))
            /\ UNCHANGED skipped
            /\ IF ~CheckpointDue(config.checkpoint, results')
               THEN /\ runpc' = IF Tail(functions) = <<>> THEN "pool" ELSE "function"
                    /\ UNCHANGED <<files, saves>>
               ELSE IF \A k \in 1..Len(results') : HasToJson(results'[k])
               THEN /\ files' = WriteText(files,
                                    GetCheckpointFile(EXTRACTOR_CHECKPOINT_PREFIX, config.pid),
                                    ToJsonList(results'))
                    /\ saves' = saves + 1
                    /\ runpc' = IF Tail(functions) = <<>> THEN "pool" ELSE "function"
               ELSE /\ runpc' = "failed"
                    /\ UNCHANGED <<files, saves>>
    /\ UNCHANGED <<poolVars, progressVars, refVars, ckHist, moreVars, runs, config,
                   prevRun, todo, loaded, batch>>

\* the process is killed while get_results runs
Crash ==
    /\ runpc \in {"pool", "function"}
    /\ runpc' = "crashed"
    /\ UNCHANGED <<poolVars, progressVars, refVars, ckVars, moreVars, runs, config, prevRun,
                   skipped, batch,
                   results,
                   todo, functions, loaded, saves>>

\* ------------------------------- SourceCodeDataset, DecompiledCodeDataset

MaxSources == 2      \* longest list a SourceCodeDataset is built from
MaxDecompiled == 2   \* longest sequence of decompiled functions supplied

\* DecompiledFunction(uid, path, ..., name, ...): uid and name come from the
\* decompiler's JSON and are independent of each other
DecompiledFunction(uid, path, name) ==
    [type |-> "DecompiledFunction", uid |-> uid, path |-> path, name |-> name]

DecompiledNames == {"f", "h"}
DecompiledRecords ==
    {DecompiledFunction(<<"out.lib", id>>, "out.lib", name) :
        id \in {"1", "2"}, name \in DecompiledNames}
    \cup {DecompiledFunction(<<"out.lib", "1">>, "bin/out.lib", "f")}

\* the names uuid4 can give a stripped function; none is a name of the source
SubNames == {"sub_1", "sub_2"}

\* DecompiledFunction.to_stripped: same uid and path, the name is the first
\* placeholder sub_<uuid>
ToStripped(d, sub) == [d EXCEPT !.name = sub]

SeqsUpTo(S, n) == UNION {[1..k -> S] : k \in 0..n}

\* Function.create_uid(path) is path.parts[-1]: a file of the same name in
\* another directory gives the same uid with another path
SourceInputs == Records \cup {[SourceFunction("a.c", "f") EXCEPT !.path = "lib/a.c"]}

\* a dict is the sequence of its items in insertion order
HasKey(d, key) == \E k \in 1..Len(d) : d[k].key = key
GetItem(d, key) == d[CHOOSE k \in 1..Len(d) : d[k].key = key].value

\* faulty variant: a key that is already present keeps its first value
SetItemKeepsFirst(d, key, value) ==
    IF HasKey(d, key) THEN d ELSE Append(d, [key |-> key, value |-> value])

\* d[key] = value inside a dict comprehension: a new key is added at the end,
\* a key that is present keeps its place and takes the new value
SetItem(d, key, value) ==
    IF HasKey(d, key)
    THEN [k \in 1..Len(d) |->
            IF d[k].key = key THEN [key |-> key, value |-> value] ELSE d[k]]
    ELSE Append(d, [key |-> key, value |-> value])

RECURSIVE UidDict(_, _)
\* {f.uid: f for f in functions}, over the first n functions
UidDict(fs, n) ==
    IF n = 0 THEN <<>> ELSE SetItem(UidDict(fs, n - 1), fs[n].uid, fs[n])

\* f.uid is an attribute: a dict (a loaded checkpoint entry) has none
HasUid(x) == x.type # "dict"

\* SourceCodeDataset(functions)
SourceCodeDataset(fs) == UidDict(fs, Len(fs))

RECURSIVE PairDict(_, _)
\* {m[0].uid: m for m in mappings}, over the first n mappings
PairDict(ms, n) ==
    IF n = 0 THEN <<>> ELSE SetItem(PairDict(ms, n - 1), ms[n][1].uid, ms[n])

\* DecompiledCodeDataset(mappings)
DecompiledCodeDataset(ms) == PairDict(ms, Len(ms))

\* SourceFunction.get_function_name(uid): the name without the path and class
\* qualifiers of the uid
GetFunctionName(uid) == uid[2]

RECURSIVE PotentialMappingsOverwrites(_, _)
\* faulty variant: potential_mappings[name] = [function]
PotentialMappingsOverwrites(sd, n) ==
    IF n = 0 THEN [x \in {} |-> <<>>]
    ELSE LET pm == PotentialMappingsOverwrites(sd, n - 1)
             name == GetFunctionName(sd[n].value.uid)
         IN  [x \in DOMAIN pm \cup {name} |->
                IF x = name THEN <<GetItem(sd, sd[n].value.uid)>> ELSE pm[x]]

RECURSIVE PotentialMappings(_, _)
\* potential_mappings.setdefault(name, []).append(source_dataset[uid]) for the
\* first n values of source_dataset
PotentialMappings(sd, n) ==
    IF n = 0 THEN [x \in {} |-> <<>>]
    ELSE LET pm == PotentialMappings(sd, n - 1)
             name == GetFunctionName(sd[n].value.uid)
             old == IF name \in DOMAIN pm THEN pm[name] ELSE <<>>
         IN  [x \in DOMAIN pm \cup {name} |->
                IF x = name THEN Append(old, GetItem(sd, sd[n].value.uid)) ELSE pm[x]]

\* faulty variant: the pair is put in front of the list
AppendMappingInFront(ms, m) == <<m>> \o ms

\* mappings.append((decompiled_function, SourceCodeDataset(...)))
AppendMapping(ms, m) == Append(ms, m)

\* faulty variant: a name that is not in potential_mappings gets an empty group
MapOneKeepsUnmatched(ms, d, pm) ==
    AppendMapping(ms, <<d, SourceCodeDataset(IF d.name \in DOMAIN pm
                                             THEN pm[d.name] ELSE <<>>)>>)

\* one pass of the loop over decompiled_functions with the strip flag unset
MapOne(ms, d, pm) ==
    IF d.name \in DOMAIN pm
    THEN AppendMapping(ms, <<d, SourceCodeDataset(pm[d.name])>>)
    ELSE ms

CorrIdle ==
    /\ source_functions = <<>>
    /\ decompiled_functions = <<>>
    /\ stripped = FALSE
    /\ source_dataset = <<>>
    /\ potential_mappings = [x \in {} |-> <<>>]
    /\ mappings = <<>>
    /\ dk = 1
    /\ dataset = <<>>
    /\ corrpc = "idle"

\* the inputs of one correlation
CorrInit ==
    /\ source_functions \in SeqsUpTo(SourceInputs, MaxSources)
    /\ decompiled_functions \in SeqsUpTo(DecompiledRecords, MaxDecompiled)
    /\ stripped \in BOOLEAN
    /\ source_dataset = <<>>
    /\ potential_mappings = [x \in {} |-> <<>>]
    /\ mappings = <<>>
    /\ dk = 1
    /\ dataset = <<>>
    /\ corrpc = "start"

\* source_dataset = SourceCodeDataset(source_functions)
BuildSourceDataset ==
    /\ corrpc = "start"
    /\ source_dataset' = SourceCodeDataset(source_functions)
    /\ corrpc' = "index"
    /\ UNCHANGED <<poolVars, progressVars, refVars, ckVars, exVars, mpVars, lcVars, otherVars,
                   source_functions,
                   decompiled_functions, stripped, potential_mappings, mappings, dk,
                   dataset>>

\* the loop over source_dataset.values() that fills potential_mappings
BuildIndex ==
    /\ corrpc = "index"
    /\ potential_mappings' = PotentialMappings(source_dataset, Len(source_dataset))
    /\ corrpc' = "map"
    /\ UNCHANGED <<poolVars, progressVars, refVars, ckVars, exVars, mpVars, lcVars, otherVars,
                   source_functions,
                   decompiled_functions, stripped, source_dataset, mappings, dk,
                   dataset>>

\* one pass of the loop over decompiled_functions; sub is the placeholder
\* to_stripped draws
MapFunction(sub) ==
    /\ corrpc = "map"
    /\ dk <= Len(decompiled_functions)
    /\ LET d == decompiled_functions[dk] IN
       IF ~stripped \/ d.name \notin DOMAIN potential_mappings
       THEN /\ mappings' = MapOne(mappings, d, potential_mappings)
            /\ dk' = dk + 1
            /\ UNCHANGED corrpc
       ELSE LET s == ToStripped(d, sub) IN
            IF s.name \in DOMAIN potential_mappings
            THEN /\ mappings' = AppendMapping(mappings,
                                   <<s, SourceCodeDataset(potential_mappings[s.name])>>)
                 /\ dk' = dk + 1
                 /\ UNCHANGED corrpc
            ELSE \* potential_mappings[decompiled_function.name]: KeyError
                 /\ corrpc' = "raised"
                 /\ UNCHANGED <<mappings, dk>>
    /\ UNCHANGED <<poolVars, progressVars, refVars, ckVars, exVars, mpVars, lcVars, otherVars,
                   source_functions,
                   decompiled_functions, stripped, source_dataset, potential_mappings,
                   dataset>>

\* return cls(mappings)
BuildDataset ==
    /\ corrpc = "map"
    /\ dk > Len(decompiled_functions)
    /\ dataset' = DecompiledCodeDataset(mappings)
    /\ corrpc' = "built"
    /\ UNCHANGED <<poolVars, progressVars, refVars, ckVars, exVars, mpVars, lcVars, otherVars,
                   source_functions,
                   decompiled_functions, stripped, source_dataset, potential_mappings,
                   mappings, dk>>

\* ---------------------------------------- ProcessPoolProgress.multi_progress

MaxPoolItems == 2   \* items of each pool handed to multi_progress

\* multi_progress((pool_1, sink_1), (pool_2, sink_2))
Pools == {1, 2}
PoolItems == 1..MaxPoolItems
NumPools == Cardinality(Pools)

\* any(self._new_results); the results of these pools are truthy
AnyNew(p) == mpNew[p] # <<>>
\* all(f.done() for f in self._futures)
AllFuturesDone(p) == \A i \in PoolItems : mpFuture[p][i] \in {"done", "called"}
AllCalled(p) == \A i \in PoolItems : mpFuture[p][i] = "called"

MultiIdle ==
    /\ mpOutcome = [p \in Pools |-> [i \in PoolItems |-> "result"]]
    /\ mpFuture = [p \in Pools |-> [i \in PoolItems |-> "unsubmitted"]]
    /\ mpNew = [p \in Pools |-> <<>>]
    /\ mpGot = [p \in Pools |-> <<>>]
    /\ sinks = [p \in Pools |-> <<>>]
    /\ drvpc = [p \in Pools |-> "unsubmitted"]
    /\ multiFlag = [p \in Pools |-> FALSE]
    /\ ownProgress = [p \in Pools |-> "none"]
    /\ rows = <<>>
    /\ live = "none"
    /\ synpc = "idle"
    /\ bodyRaised = FALSE

\* the call of multi_progress: what each item's task does is an input
MultiInit ==
    /\ mpOutcome \in [Pools -> [PoolItems -> {"raise", "result"}]]
    /\ mpFuture = [p \in Pools |-> [i \in PoolItems |-> "unsubmitted"]]
    /\ mpNew = [p \in Pools |-> <<>>]
    /\ mpGot = [p \in Pools |-> <<>>]
    /\ sinks = [p \in Pools |-> <<>>]
    /\ drvpc = [p \in Pools |-> "unsubmitted"]
    /\ multiFlag = [p \in Pools |-> FALSE]
    /\ ownProgress = [p \in Pools |-> "none"]
    /\ rows = <<>>
    /\ live = "none"
    /\ synpc = "submit"
    /\ bodyRaised = FALSE

\* one pass of "for pool, results in pools_and_results": mark the pool, add its
\* row, submit its driver get_results(pool, results) to the ThreadPoolExecutor
SubmitDriver ==
    /\ synpc = "submit"
    /\ LET p == Len(rows) + 1 IN
       /\ multiFlag' = [multiFlag EXCEPT ![p] = TRUE]
       /\ rows' = Append(rows, p)
       /\ drvpc' = [drvpc EXCEPT ![p] = "call"]
       /\ synpc' = IF p = NumPools THEN "live" ELSE "submit"
    /\ UNCHANGED <<mpOutcome, mpFuture, mpNew, mpGot, sinks, ownProgress, live, bodyRaised>>
    /\ UNCHANGED <<poolVars, progressVars, refVars, ckVars, exVars, corrVars, lcVars, otherVars>>

\* with Live(table) as live: the shared display starts, control goes to the caller
LiveEnter ==
    /\ synpc = "live"
    /\ live' = "started"
    /\ synpc' = "body"
    /\ UNCHANGED <<mpOutcome, mpFuture, mpNew, mpGot, sinks, drvpc, multiFlag,
                   ownProgress, rows, bodyRaised>>
    /\ UNCHANGED <<poolVars, progressVars, refVars, ckVars, exVars, corrVars, lcVars, otherVars>>

\* yield live: the caller's block ends, normally or with an exception, and
\* Live.__exit__ stops the display
LiveExit(raises) ==
    /\ synpc = "body"
    /\ live' = "stopped"
    /\ bodyRaised' = raises
    /\ synpc' = IF raises THEN "shutdown" ELSE "wait"
    /\ UNCHANGED <<mpOutcome, mpFuture, mpNew, mpGot, sinks, drvpc, multiFlag,
                   ownProgress, rows>>
    /\ UNCHANGED <<poolVars, progressVars, refVars, ckVars, exVars, corrVars, lcVars, otherVars>>

\* wait(futures): returns when every driver has finished
WaitFutures ==
    /\ synpc = "wait"
    /\ \A p \in Pools : drvpc[p] = "finished"
    /\ synpc' = "shutdown"
    /\ UNCHANGED <<mpOutcome, mpFuture, mpNew, mpGot, sinks, drvpc, multiFlag,
                   ownProgress, rows, live, bodyRaised>>
    /\ UNCHANGED <<poolVars, progressVars, refVars, ckVars, exVars, corrVars, lcVars, otherVars>>

\* ThreadPoolExecutor.__exit__: shutdown(wait=True), then the scope is left
ExecutorExit ==
    /\ synpc = "shutdown"
    /\ \A p \in Pools : drvpc[p] = "finished"
    /\ synpc' = IF bodyRaised THEN "raised" ELSE "done"
    /\ UNCHANGED <<mpOutcome, mpFuture, mpNew, mpGot, sinks, drvpc, multiFlag,
                   ownProgress, rows, live, bodyRaised>>
    /\ UNCHANGED <<poolVars, progressVars, refVars, ckVars, exVars, corrVars, lcVars, otherVars>>

OwnDisplayIgnoresFlag(multi, now, next) == next

\* if not self._multi_progress: self._progress.__enter__() / __exit__(...):
\* the state of the pool's own display after the statement
OwnDisplay(multi, now, next) == IF multi THEN now ELSE next

\* pool() called by the user of a pool that is not passed to multi_progress
DirectCall(p) ==
    /\ synpc = "idle"
    /\ drvpc[p] = "unsubmitted"
    /\ drvpc' = [drvpc EXCEPT ![p] = "call"]
    /\ UNCHANGED <<mpOutcome, mpFuture, mpNew, mpGot, sinks, multiFlag, ownProgress,
                   rows, live, synpc, bodyRaised>>
    /\ UNCHANGED <<poolVars, progressVars, refVars, ckVars, exVars, corrVars, lcVars, otherVars>>

\* the driver calls pool(): ProcessPoolProgress.__enter__ enters the pool's own
\* display unless _multi_progress is set, and submits every item
DriverEnter(p) ==
    /\ drvpc[p] = "call"
    /\ ownProgress' = [ownProgress EXCEPT
                          ![p] = OwnDisplay(multiFlag[p], @, "entered")]
    /\ mpFuture' = [mpFuture EXCEPT ![p] = [i \in PoolItems |-> "running"]]
    /\ drvpc' = [drvpc EXCEPT ![p] = "next"]
    /\ UNCHANGED <<mpOutcome, mpNew, mpGot, sinks, multiFlag, rows, live, synpc, bodyRaised>>
    /\ UNCHANGED <<poolVars, progressVars, refVars, ckVars, exVars, corrVars, lcVars, otherVars>>

\* a task of the pool ends: its Future is done from now on
TaskDone(p, i) ==
    /\ mpFuture[p][i] = "running"
    /\ mpFuture' = [mpFuture EXCEPT ![p][i] = "done"]
    /\ UNCHANGED <<mpOutcome, mpNew, mpGot, sinks, drvpc, multiFlag, ownProgress,
                   rows, live, synpc, bodyRaised>>
    /\ UNCHANGED <<poolVars, progressVars, refVars, ckVars, exVars, corrVars, lcVars, otherVars>>

\* the done callback of the task: a result is appended to _new_results
TaskCallback(p, i) ==
    /\ mpFuture[p][i] = "done"
    /\ mpFuture' = [mpFuture EXCEPT ![p][i] = "called"]
    /\ mpNew' = [mpNew EXCEPT ![p] = IF mpOutcome[p][i] = "result"
                                      THEN Append(@, <<p, i>>) ELSE @]
    /\ UNCHANGED <<mpOutcome, mpGot, sinks, drvpc, multiFlag, ownProgress,
                   rows, live, synpc, bodyRaised>>
    /\ UNCHANGED <<poolVars, progressVars, refVars, ckVars, exVars, corrVars, lcVars, otherVars>>

\* __next__ called by get_results: StopIteration when every Future is done
\* and _new_results is empty, else the while loop
DriverNext(p) ==
    /\ drvpc[p] = "next"
    /\ drvpc' = [drvpc EXCEPT ![p] = IF ~AllFuturesDone(p) \/ AnyNew(p)
                                      THEN "while" ELSE "exit"]
    /\ UNCHANGED <<mpOutcome, mpFuture, mpNew, mpGot, sinks, multiFlag, ownProgress,
                   rows, live, synpc, bodyRaised>>
    /\ UNCHANGED <<poolVars, progressVars, refVars, ckVars, exVars, corrVars, lcVars, otherVars>>

\* the while loop of __next__ ends when any(self._new_results); pop() takes
\* the last result, which get_results adds to its list
DriverPop(p) ==
    /\ drvpc[p] = "while"
    /\ AnyNew(p)
    /\ mpGot' = [mpGot EXCEPT ![p] = Append(@, mpNew[p][Len(mpNew[p])])]
    /\ mpNew' = [mpNew EXCEPT ![p] = SubSeq(@, 1, Len(@) - 1)]
    /\ drvpc' = [drvpc EXCEPT ![p] = "next"]
    /\ UNCHANGED <<mpOutcome, mpFuture, sinks, multiFlag, ownProgress,
                   rows, live, synpc, bodyRaised>>
    /\ UNCHANGED <<poolVars, progressVars, refVars, ckVars, exVars, corrVars, lcVars, otherVars>>

\* ProcessPoolProgress.__exit__: the pool's own display exits unless
\* _multi_progress is set, the process pool is shut down (wait=True)
DriverExit(p) ==
    /\ drvpc[p] = "exit"
    /\ AllCalled(p)
    /\ ownProgress' = [ownProgress EXCEPT
                          ![p] = OwnDisplay(multiFlag[p], @, "exited")]
    /\ drvpc' = [drvpc EXCEPT ![p] = "extend"]
    /\ UNCHANGED <<mpOutcome, mpFuture, mpNew, mpGot, sinks, multiFlag,
                   rows, live, synpc, bodyRaised>>
    /\ UNCHANGED <<poolVars, progressVars, refVars, ckVars, exVars, corrVars, lcVars, otherVars>>

\* results.extend(result): the driver adds what pool() returned to its sink
DriverExtend(p) ==
    /\ drvpc[p] = "extend"
    /\ sinks' = [sinks EXCEPT ![p] = @ \o mpGot[p]]
    /\ drvpc' = [drvpc EXCEPT ![p] = "finished"]
    /\ UNCHANGED <<mpOutcome, mpFuture, mpNew, mpGot, multiFlag, ownProgress,
                   rows, live, synpc, bodyRaised>>
    /\ UNCHANGED <<poolVars, progressVars, refVars, ckVars, exVars, corrVars, lcVars, otherVars>>

\* ---------------------------------------- repoman.execute_command, manage

MaxAttempts == 2   \* runs of one command (the first run and its retries)

CommandErrorHandlers == {"interactive", "ignore", "none"}
\* execute_command(command, error_handler='none', ...): build() and cleanup()
\* pass no error_handler
DefaultErrorHandler == "none"
Commands == {"build", "cleanup", "direct"}
\* Optional[bool] arguments of manage
OptionalBools == {"None", "True", "False"}
PromptChoices == {"retry", "ignore", "abort"}

\* ManageConfig(): build_error_handling = 'interactive',
\* cleanup_error_handling = 'ignore'
DefaultManageConfig ==
    [build_error_handling |-> "interactive", cleanup_error_handling |-> "ignore"]

ManageIdle ==
    /\ phase = "idle"
    /\ cmdpc = "none"
    /\ command = "build"
    /\ error_handler = DefaultErrorHandler
    /\ manage_args = [cleanup_command |-> FALSE, ignore_build_errors |-> "None",
                      ignore_cleanup_errors |-> "None"]
    /\ cmdRuns = [c \in Commands |-> 0]
    /\ cmdFailed = [c \in Commands |-> FALSE]
    /\ prompts = 0
    /\ bodyRan = FALSE
    /\ responses = [c \in Commands |-> <<>>]
    /\ manage_config = DefaultManageConfig
    /\ bodyEnded = FALSE

\* ManageConfig(build_error_handling=..., cleanup_error_handling=...): the
\* dataclass is built by the caller; neither manage nor build, cleanup or
\* execute_command reads it
NewManageConfig(build_error_handling, cleanup_error_handling) ==
    /\ phase = "idle"
    /\ manage_config = DefaultManageConfig
    /\ manage_config' = [build_error_handling |-> build_error_handling,
                         cleanup_error_handling |-> cleanup_error_handling]
    /\ manage_config' # manage_config
    /\ UNCHANGED <<phase, cmdpc, command, error_handler, manage_args, cmdRuns,
                   cmdFailed, prompts, bodyRan, responses, bodyEnded>>
    /\ UNCHANGED <<poolVars, progressVars, refVars, ckVars, exVars, corrVars, mpVars, otherVars>>

\* with manage(build_command, cleanup_command, ignore_build_errors,
\* ignore_cleanup_errors): build(build_command, ignore_errors=...) starts
Manage(cleanup_command, ignore_build_errors, ignore_cleanup_errors) ==
    /\ phase = "idle"
    /\ manage_args' = [cleanup_command |-> cleanup_command,
                       ignore_build_errors |-> ignore_build_errors,
                       ignore_cleanup_errors |-> ignore_cleanup_errors]
    /\ phase' = "building"
    /\ command' = "build"
    /\ error_handler' = DefaultErrorHandler
    /\ cmdpc' = "run"
    /\ UNCHANGED <<cmdRuns, cmdFailed, prompts, bodyRan, responses, manage_config,
                   bodyEnded>>
    /\ UNCHANGED <<poolVars, progressVars, refVars, ckVars, exVars, corrVars, mpVars, otherVars>>

\* execute_command(command, error_handler=handler) called on its own
CallExecuteCommand(handler) ==
    /\ phase = "idle"
    /\ phase' = "command"
    /\ command' = "direct"
    /\ error_handler' = handler
    /\ cmdpc' = "run"
    /\ UNCHANGED <<manage_args, cmdRuns, cmdFailed, prompts, bodyRan, responses,
                   manage_config, bodyEnded>>
    /\ UNCHANGED <<poolVars, progressVars, refVars, ckVars, exVars, corrVars, mpVars, otherVars>>

\* the phase after execute_command has returned
PhaseAfterReturn == IF command = "build" THEN "pipeline" ELSE "done"

ExceptClauseReraises(handler) ==
    IF handler = "interactive" THEN "prompt" ELSE "raise"

\* except subprocess.CalledProcessError: the failure is logged; only the
\* interactive handler goes on to ask, for every other handler the clause
\* ends and execute_command returns
ExceptClause(handler) ==
    IF handler = "interactive" THEN "prompt" ELSE "return"

\* where execute_command goes on: "prompt" asks, "run" calls execute_command
\* again, "return" returns to the caller, "raise" leaves with the
\* CalledProcessError
PhaseAfter(step) ==
    CASE step = "return" -> PhaseAfterReturn
      [] step = "raise" -> "raised"
      [] OTHER -> phase

\* subprocess.run(command, check=True) with its except and else clauses
SubprocessRun(fails) ==
    /\ cmdpc = "run"
    /\ cmdRuns[command] < MaxAttempts
    /\ cmdRuns' = [cmdRuns EXCEPT ![command] = @ + 1]
    /\ IF fails
       THEN /\ cmdFailed' = [cmdFailed EXCEPT ![command] = TRUE]
            /\ cmdpc' = IF ExceptClause(error_handler) = "prompt"
                        THEN "prompt" ELSE "none"
            /\ phase' = PhaseAfter(ExceptClause(error_handler))
       ELSE /\ cmdpc' = "none"
            /\ phase' = PhaseAfterReturn
            /\ UNCHANGED cmdFailed
    /\ UNCHANGED <<command, error_handler, manage_args, prompts, bodyRan, responses,
                   manage_config, bodyEnded>>
    /\ UNCHANGED <<poolVars, progressVars, refVars, ckVars, exVars, corrVars, mpVars, otherVars>>

PromptOutcomeSwallowsAbort(result) ==
    IF result = "retry" THEN "run" ELSE "return"

\* if result == 'retry': execute_command(command, error_handler=..., task=...)
\* elif result == 'abort': raise; the response ignore ends the clause
PromptOutcome(result) ==
    CASE result = "retry" -> "run"
      [] result = "abort" -> "raise"
      [] OTHER -> "return"

\* Prompt.ask(..., choices=['retry', 'ignore', 'abort']) and what follows it
PromptAsk(result) ==
    /\ cmdpc = "prompt"
    /\ result = "retry" => cmdRuns[command] < MaxAttempts
    /\ prompts' = prompts + 1
    /\ responses' = [responses EXCEPT ![command] = Append(@, result)]
    /\ cmdpc' = IF PromptOutcome(result) = "run" THEN "run" ELSE "none"
    /\ phase' = PhaseAfter(PromptOutcome(result))
    /\ UNCHANGED <<command, error_handler, manage_args, cmdRuns, cmdFailed, bodyRan,
                   manage_config, bodyEnded>>
    /\ UNCHANGED <<poolVars, progressVars, refVars, ckVars, exVars, corrVars, mpVars, otherVars>>

PhaseAfterBodyFinally(raises, cleanup_command) ==
    IF cleanup_command THEN "cleaning" ELSE IF raises THEN "raised" ELSE "done"

\* yield; if cleanup_command: cleanup(...): an exception of the body is
\* thrown into manage at the yield, which no try statement encloses
PhaseAfterBody(raises, cleanup_command) ==
    CASE raises -> "raised"
      [] cleanup_command -> "cleaning"
      [] OTHER -> "done"

\* yield: the body of the with statement runs; when it raises, the exception
\* is thrown into manage at the yield and leaves it; when it ends,
\* cleanup(cleanup_command, ignore_errors=...) starts if a command was given
PipelineBody(raises) ==
    /\ phase = "pipeline"
    /\ bodyRan' = TRUE
    /\ bodyEnded' = ~raises
    /\ phase' = PhaseAfterBody(raises, manage_args.cleanup_command)
    /\ IF phase' = "cleaning"
       THEN command' = "cleanup" /\ cmdpc' = "run"
       ELSE UNCHANGED <<command, cmdpc>>
    /\ error_handler' = DefaultErrorHandler
    /\ UNCHANGED <<manage_args, cmdRuns, cmdFailed, prompts, responses, manage_config>>
    /\ UNCHANGED <<poolVars, progressVars, refVars, ckVars, exVars, corrVars, mpVars, otherVars>>

\* ------------------------- extractor.ExtractConfig, _CallableExtractor.__init__

MaxWorkers == 2   \* largest max_workers given

\* an Optional value: None is <<>>, a value v is <<v>>
NoValue == <<>>
WorkerCounts == {NoValue} \cup {<<w>> : w \in -1..MaxWorkers}
CheckpointIntervals == -1..MaxCheckpoint
\* paths as their parts: the repository, and candidate subpaths
RepoPath == <<"repo">>
Subpaths == {<<"repo">>, <<"repo", "src">>}
ExtractArgs ==
    [max_workers : WorkerCounts, checkpoint : CheckpointIntervals,
     exclude_subpaths : SUBSET Subpaths, exclusive_subpaths : SUBSET Subpaths]

\* truthiness of an Optional[int]
TruthyInt(o) == o # NoValue /\ o[1] # 0

\* parent.relative_to(child) succeeds: child is a prefix of parent
IsRelativeTo(parent, child) ==
    Len(child) <= Len(parent) /\ SubSeq(parent, 1, Len(child)) = child

\* ExtractConfig.__post_init__
PostInitRejects(args) ==
    \/ TruthyInt(args.max_workers) /\ args.max_workers[1] < 1
    \/ args.exclude_subpaths \cap args.exclusive_subpaths # {}
    \/ args.checkpoint < 0

InitRejectsForgetsCheckpoint(args) ==
    \/ args.exclude_subpaths \cap args.exclusive_subpaths # {}
    \/ ~ \A p \in args.exclusive_subpaths \cup args.exclude_subpaths :
            IsRelativeTo(RepoPath, p)

\* _CallableExtractor.__init__: the checks made before the pool is built
InitRejects(args) ==
    \/ args.exclude_subpaths \cap args.exclusive_subpaths # {}
    \/ args.checkpoint < 0
    \/ ~ \A p \in args.exclusive_subpaths \cup args.exclude_subpaths :
            IsRelativeTo(RepoPath, p)

\* ProcessPoolExecutor(max_workers=...): ValueError unless None or positive
ExecutorRejects(max_workers) == max_workers # NoValue /\ max_workers[1] <= 0

CtorIdle ==
    /\ ctorpc = "idle"
    /\ ctor_args = [max_workers |-> NoValue, checkpoint |-> 0,
                    exclude_subpaths |-> {}, exclusive_subpaths |-> {}]
    /\ raisedAt = "none"
    /\ submitted = 0

\* ExtractConfig(max_workers=..., checkpoint=..., ...)
NewExtractConfig(args) ==
    /\ ctorpc = "idle"
    /\ ctor_args' = args
    /\ IF PostInitRejects(args)
       THEN ctorpc' = "raised" /\ raisedAt' = "config"
       ELSE ctorpc' = "config" /\ UNCHANGED raisedAt
    /\ UNCHANGED submitted
    /\ UNCHANGED <<baseVars, fnVars, stripVars, decVars>>

\* extract(path, max_workers=..., ...): _CallableExtractor.__init__ up to the
\* construction of the pool
CallableExtractorInit(args) ==
    /\ ctorpc = "idle"
    /\ ctor_args' = args
    /\ IF InitRejects(args)
       THEN ctorpc' = "raised" /\ raisedAt' = "init"
       ELSE ctorpc' = "pool" /\ UNCHANGED raisedAt
    /\ UNCHANGED submitted
    /\ UNCHANGED <<baseVars, fnVars, stripVars, decVars>>

\* ProcessPoolProgress(_extract, extractors_and_files, ..., max_workers=...)
ProcessPoolProgressInit ==
    /\ ctorpc = "pool"
    /\ IF ExecutorRejects(ctor_args.max_workers)
       THEN ctorpc' = "raised" /\ raisedAt' = "pool"
       ELSE ctorpc' = "constructed" /\ UNCHANGED raisedAt
    /\ UNCHANGED <<ctor_args, submitted>>
    /\ UNCHANGED <<baseVars, fnVars, stripVars, decVars>>

\* extractor(): with self.pool submits every item
ExtractorCall ==
    /\ ctorpc = "constructed"
    /\ ctorpc' = "entered"
    /\ submitted' = Cardinality(SourceFiles)
    /\ UNCHANGED <<ctor_args, raisedAt>>
    /\ UNCHANGED <<baseVars, fnVars, stripVars, decVars>>

\* ------------------------------------------------ function.SourceFunction

MaxByte == 2   \* largest byte offset given

\* paths as their parts
FnPaths == {<<"src", "a.c">>, <<"lib", "a.c">>}
\* class_name: Optional[str]
ClassNames == {NoValue, <<"K">>}
\* definitions as their characters
Definitions == {<<>>, <<"x">>}
\* metadata as the set of its keys
Metadatas == {{}, {"k"}, {"name"}}
StartBytes == -1..(MaxByte - 1)
EndBytes == 0..MaxByte
\* asdict(self).keys()
FieldNames == {"uid", "path", "language", "definition", "name", "start_byte",
               "end_byte", "class_name", "metadata"}

NoFunction == [type |-> "None"]

\* Function.create_uid(path): path.parts[-1]
FileName(path) == path[Len(path)]

CreateUidWholePath(path, name, class_name) ==
    IF class_name # NoValue /\ class_name[1] # ""
    THEN path \o <<"::", class_name[1], ".", name>>
    ELSE path \o <<"::", name>>

\* SourceFunction.create_uid(path, name, class_name): the pieces of the
\* f-string, in order
CreateUid(path, name, class_name) ==
    IF class_name # NoValue /\ class_name[1] # ""
    THEN <<FileName(path), "::", class_name[1], ".", name>>
    ELSE <<FileName(path), "::", name>>

FnUids == {CreateUid(p, n, c) : p \in FnPaths, n \in FunctionNames, c \in ClassNames}
           \cup {<<"other">>}

\* the dataclass fields of SourceFunction
Fields(uid, path, definition, name, start_byte, end_byte, class_name, metadata) ==
    [type |-> "SourceFunction", uid |-> uid, path |-> path, language |-> "C",
     definition |-> definition, name |-> name, start_byte |-> start_byte,
     end_byte |-> end_byte, class_name |-> class_name, metadata |-> metadata]

\* SourceFunction.__post_init__: the exception it raises, "none" if it returns
PostInit(r) ==
    CASE r.start_byte < 0 -> "ValueError"
      [] r.start_byte > r.end_byte -> "ValueError"
      [] r.metadata \cap FieldNames # {} -> "KeyError"
      [] OTHER -> "none"

\* SourceFunction.from_source(path, language, definition, name, start_byte,
\* end_byte, class_name, **metadata)
FromSource(path, definition, name, start_byte, end_byte, class_name, metadata) ==
    Fields(CreateUid(path, name, class_name), path, definition, name, start_byte,
           end_byte, class_name, metadata)

\* self.with_definition(definition, name, metadata=metadata): name and
\* metadata default to self's when falsy; class_name is not passed on
WithDefinition(self, definition, name, metadata) ==
    LET new_name == IF name = NoValue \/ name[1] = "" THEN self.name ELSE name[1]
        new_metadata == IF metadata = {} THEN self.metadata ELSE metadata
    IN Fields(CreateUid(self.path, new_name, self.class_name), self.path, definition,
              new_name, self.start_byte, self.start_byte + Len(definition),
              NoValue, new_metadata)

\* self.with_metadata(metadata)
WithMetadata(self, metadata) ==
    WithDefinition(self, self.definition, NoValue, metadata)

FnIdle ==
    /\ fn = NoFunction
    /\ fnPrev = NoFunction
    /\ fnOp = "none"
    /\ fnRaised = "none"
    /\ fnArgs = [start_byte |-> 0, end_byte |-> 0]

\* a SourceFunction is constructed from candidate fields r by operation op:
\* __post_init__ runs, and the record exists only if it returns
Construct(op, self, r) ==
    /\ fnOp' = op
    /\ fnPrev' = self
    /\ fnArgs' = [start_byte |-> r.start_byte, end_byte |-> r.end_byte]
    /\ fnRaised' = PostInit(r)
    /\ fn' = IF PostInit(r) = "none" THEN r ELSE NoFunction
    /\ UNCHANGED <<baseVars, ctorVars, stripVars, decVars>>

\* SourceFunction(uid, path, language, definition, name, start_byte, end_byte,
\* class_name, metadata)
NewSourceFunction(r) ==
    /\ fnOp = "none"
    /\ Construct("init", NoFunction, r)

\* SourceFunction.from_json(json_obj), the first record of the session
FromJson(r) ==
    /\ fnOp = "none"
    /\ Construct("from_json", NoFunction, r)

\* an extraction: SourceFunction.from_source(...)
ExtractFunction(path, definition, name, start_byte, end_byte, class_name, metadata) ==
    /\ fnOp = "none"
    /\ Construct("from_source", NoFunction,
              FromSource(path, definition, name, start_byte, end_byte, class_name,
                         metadata))

\* a second extraction of the function of the record at hand: same file,
\* class and name; definition, byte range and metadata as found now
ExtractAgain(path, definition, start_byte, end_byte, metadata) ==
    /\ fn # NoFunction
    /\ fnOp = "from_source"
    /\ fnPrev = NoFunction
    /\ FileName(path) = FileName(fn.path)
    /\ Construct("from_source", fn,
                 FromSource(path, definition, fn.name, start_byte, end_byte,
                            fn.class_name, metadata))

\* fn.with_definition(definition, name, write_back=False, metadata=metadata)
CallWithDefinition(definition, name, metadata) ==
    /\ fn # NoFunction
    /\ Construct("with_definition", fn, WithDefinition(fn, definition, name, metadata))

\* fn.with_metadata(metadata)
CallWithMetadata(metadata) ==
    /\ fn # NoFunction
    /\ Construct("with_metadata", fn, WithMetadata(fn, metadata))

\* ------------------------------------------ DecompiledFunction.to_stripped

MaxSymbols == 2   \* function symbols the query matches in one definition
MaxPasses == 2    \* calls of to_stripped in a row

\* text is a sequence of atoms: the characters of identifiers, the blank that
\* separates the words of the assembly, and whole placeholders
FunctionSymbols == {<<"a">>, <<"a", "b">>, <<"b">>}

\* f'sub_{str(uuid.uuid4()).split('-', maxsplit=1)[0]}': the n-th uuid drawn
\* differs from the ones drawn before it
PlaceholderNames ==
    <<"sub_1", "sub_2", "sub_3", "sub_4", "sub_5", "sub_6", "sub_7", "sub_8",
      "sub_9", "sub_10", "sub_11", "sub_12">>
Placeholder(n) == PlaceholderNames[n]

RECURSIVE Join(_)
\* the assembly text whose words are ws
Join(ws) ==
    IF ws = <<>> THEN <<>>
    ELSE IF Len(ws) = 1 THEN ws[1]
    ELSE ws[1] \o <<" ">> \o Join(Tail(ws))

RECURSIVE Replace(_, _, _)
\* str.replace(old, new): every non-overlapping occurrence of old, from the left
Replace(text, old, new) ==
    IF Len(text) < Len(old) THEN text
    ELSE IF SubSeq(text, 1, Len(old)) = old
    THEN new \o Replace(SubSeq(text, Len(old) + 1, Len(text)), old, new)
    ELSE <<text[1]>> \o Replace(Tail(text), old, new)

\* dict.setdefault(key, default) on a dict kept as its items in insertion order
Setdefault(d, key, default) ==
    IF HasKey(d, key) THEN d ELSE Append(d, [key |-> key, value |-> default])

DefinitionInputs == SeqsUpTo(FunctionSymbols, MaxSymbols)
\* the assembly names symbols of the definition
AssemblyInputs(def) ==
    SeqsUpTo({def[k] : k \in 1..Len(def)}, MaxSymbols)

StripIdle ==
    /\ strpc = "idle"
    /\ strip_definition = <<>>
    /\ strip_assembly = <<>>
    /\ symbol_mapping = <<>>
    /\ idx = 0
    /\ strip_input = [definition |-> <<>>, assembly |-> <<>>]
    /\ strip_pass = 0
    /\ strip_name = <<>>
    /\ uuids = 0

\* a DecompiledFunction whose definition has the function symbols def (its own
\* name first) and whose assembly has the words asm
StripInit ==
    /\ strpc = "ready"
    /\ \E def \in DefinitionInputs : \E asm \in AssemblyInputs(def) :
          /\ strip_definition = def
          /\ strip_assembly = Join(asm)
          /\ strip_input = [definition |-> def, assembly |-> asm]
          /\ strip_name = IF def = <<>> THEN <<"a">> ELSE def[1]
    /\ symbol_mapping = <<>>
    /\ idx = 0
    /\ strip_pass = 0
    /\ uuids = 0

\* to_stripped(): symbol_mapping = {}; editor = ASTEditor(C_PARSER, definition);
\* match_and_edit starts with the first match
CallToStripped ==
    /\ strpc \in {"ready", "done"}
    /\ strip_pass < MaxPasses
    /\ symbol_mapping' = <<>>
    /\ idx' = 1
    /\ strpc' = "edit"
    /\ UNCHANGED <<strip_definition, strip_assembly, strip_input, strip_pass,
                   strip_name, uuids>>
    /\ UNCHANGED <<baseVars, ctorVars, fnVars, decVars>>

\* one iteration of match_and_edit: strip(node) records the placeholder of
\* the node's text, replaces the text in the assembly, and the node is
\* edited to the placeholder
StripNode ==
    /\ strpc = "edit"
    /\ idx <= Len(strip_definition)
    /\ LET orig_function == strip_definition[idx]
           mapping == Setdefault(symbol_mapping, orig_function, Placeholder(uuids + 1))
           stripped_symbol == GetItem(mapping, orig_function)
       IN /\ symbol_mapping' = mapping
          /\ strip_assembly' = Replace(strip_assembly, orig_function, <<stripped_symbol>>)
          /\ strip_definition' = [strip_definition EXCEPT ![idx] = <<stripped_symbol>>]
    /\ uuids' = uuids + 1
    /\ idx' = idx + 1
    /\ UNCHANGED <<strpc, strip_input, strip_pass, strip_name>>
    /\ UNCHANGED <<baseVars, ctorVars, fnVars, decVars>>

\* first_function, *_ = (...): ValueError when nothing was mapped; otherwise
\* the stripped DecompiledFunction is returned, named by the first placeholder
StripReturn ==
    /\ strpc = "edit"
    /\ idx > Len(strip_definition)
    /\ IF symbol_mapping = <<>>
       THEN strpc' = "raised" /\ UNCHANGED <<strip_name, strip_pass>>
       ELSE /\ strpc' = "done"
            /\ strip_name' = <<symbol_mapping[1].value>>
            /\ strip_pass' = strip_pass + 1
    /\ UNCHANGED <<strip_definition, strip_assembly, symbol_mapping, idx,
                   strip_input, uuids>>
    /\ UNCHANGED <<baseVars, ctorVars, fnVars, decVars>>

\* ------------------------------------------------------------ decompiler

MaxSets == 2         \* calls of decompiler.set in a session
MaxBins == 2         \* binaries of a batch
MaxDecompiles == 2   \* calls of decompile in a session

\* RegisteredDecompiler(name, (Path(file), class_name))
RegisteredDecompiler(name, file, class_name) ==
    [name |-> name, symbol |-> <<file, class_name>>]

\* _decompiler as the module defines it: Ghidra, decompilers/ghidra.py
DefaultDecompiler == RegisteredDecompiler("Ghidra", "ghidra.py", "Ghidra")

DecompilerNames == {"Ghidra", "Mine"}
DecompilerFiles == {"ghidra.py", "mine.py", "missing.py"}
DecompilerClasses == {"Ghidra", "Mine"}

\* create_decompiler(): dynamic_import(file, symbol) and the call of the class
\* succeed for the classes that exist: Ghidra in ghidra.py, Mine in mine.py
CreateFails(symbol) ==
    symbol \notin {<<"ghidra.py", "Ghidra">>, <<"mine.py", "Mine">>}

AfterCreateErrorKeeps(old, new) == new

\* except: ...; _decompiler = old_decompiler; raise
AfterCreateError(old, new) == old

\* get()
Get == the_decompiler

Bins == 1..MaxBins
BinOutcomes == {"ok", "raise"}

\* the functions decompiler.decompile(bin) returns for a binary
DecompiledOf(bin) == <<DecompiledFunction(<<"bin", bin>>, "bin", "f")>>

DecIdle ==
    /\ the_decompiler = DefaultDecompiler
    /\ old_decompiler = DefaultDecompiler
    /\ setpc = "idle"
    /\ setArgs = DefaultDecompiler
    /\ setResult = "none"
    /\ setBefore = DefaultDecompiler
    /\ nsets = 0
    /\ decpc = "idle"
    /\ binOutcome = [b \in Bins |-> "ok"]
    /\ taskState = [b \in Bins |-> "none"]
    /\ collectk = 1
    /\ decompiled = <<>>
    /\ ndec = 0

\* set(name, file, class_name), up to the call of create_decompiler
DecompilerSet(name, file, class_name) ==
    /\ setpc = "idle"
    /\ decpc \in {"idle", "returned", "raised", "create_failed"}
    /\ nsets < MaxSets
    /\ nsets' = nsets + 1
    /\ old_decompiler' = the_decompiler
    /\ setBefore' = the_decompiler
    /\ the_decompiler' = RegisteredDecompiler(name, file, class_name)
    /\ setArgs' = RegisteredDecompiler(name, file, class_name)
    /\ setResult' = "none"
    /\ setpc' = "create"
    /\ UNCHANGED <<baseVars, ctorVars, fnVars, stripVars, decpc, binOutcome,
                   taskState, collectk, decompiled, ndec>>

\* set: try: create_decompiler() except: restore and raise; else return
DecompilerSetCreate ==
    /\ setpc = "create"
    /\ IF CreateFails(the_decompiler.symbol)
       THEN /\ the_decompiler' = AfterCreateError(old_decompiler, the_decompiler)
            /\ setResult' = "raised"
       ELSE /\ setResult' = "returned"
            /\ UNCHANGED the_decompiler
    /\ setpc' = "idle"
    /\ UNCHANGED <<baseVars, ctorVars, fnVars, stripVars, old_decompiler, setArgs,
                   setBefore, nsets, decpc, binOutcome, taskState, collectk,
                   decompiled, ndec>>

\* decompile(*paths, config): decompile_task collects the binaries, creates the
\* decompiler and submits one task per binary
Decompile(outcomes) ==
    /\ setpc = "idle"
    /\ decpc \in {"idle", "returned", "raised", "create_failed"}
    /\ ndec < MaxDecompiles
    /\ ndec' = ndec + 1
    /\ binOutcome' = outcomes
    /\ decompiled' = <<>>
    /\ collectk' = 1
    /\ IF CreateFails(the_decompiler.symbol)
       THEN /\ decpc' = "create_failed"
            /\ taskState' = [b \in Bins |-> "none"]
       ELSE /\ decpc' = "collect"
            /\ taskState' = [b \in Bins |-> "pending"]
    /\ UNCHANGED <<baseVars, ctorVars, fnVars, stripVars, the_decompiler,
                   old_decompiler, setpc, setArgs, setResult, setBefore, nsets>>

\* a submitted task runs decompiler.decompile(bin) and ends completed or failed
DecompileRun(bin) ==
    /\ taskState[bin] = "pending"
    /\ taskState' = [taskState EXCEPT
                        ![bin] = IF binOutcome[bin] = "raise" THEN "failed"
                                 ELSE "completed"]
    /\ UNCHANGED <<baseVars, ctorVars, fnVars, stripVars, the_decompiler,
                   old_decompiler, setpc, setArgs, setResult, setBefore, nsets,
                   decpc, binOutcome, collectk, decompiled, ndec>>

\* future.result() of a task that has ended: the exception of a failed task
\* is raised in the caller
FutureResult(state) == IF state = "failed" THEN "raise" ELSE "next"

\* functions = [function for future in futures for function in
\* future.result()]: the pass for the next future, which waits for its task
DecompileCollect ==
    /\ decpc = "collect"
    /\ collectk <= MaxBins
    /\ taskState[collectk] \in {"completed", "failed"}
    /\ IF FutureResult(taskState[collectk]) = "raise"
       THEN /\ decpc' = "raised"
            /\ UNCHANGED <<collectk, decompiled>>
       ELSE /\ decompiled' = decompiled \o
                    (IF taskState[collectk] = "completed"
                     THEN DecompiledOf(collectk) ELSE <<>>)
            /\ collectk' = collectk + 1
            /\ UNCHANGED decpc
    /\ UNCHANGED <<baseVars, ctorVars, fnVars, stripVars, the_decompiler,
                   old_decompiler, setpc, setArgs, setResult, setBefore, nsets,
                   binOutcome, taskState, ndec>>

\* return functions
DecompileReturn ==
    /\ decpc = "collect"
    /\ collectk > MaxBins
    /\ decpc' = "returned"
    /\ UNCHANGED <<baseVars, ctorVars, fnVars, stripVars, the_decompiler,
                   old_decompiler, setpc, setArgs, setResult, setBefore, nsets,
                   binOutcome, taskState, collectk, decompiled, ndec>>

OtherIdle == CtorIdle /\ FnIdle /\ StripIdle /\ DecIdle

MoreIdle == CorrIdle /\ MultiIdle /\ ManageIdle /\ OtherIdle

\* -------------------------------------------------------- specifications

\* one batch run through ProcessPoolProgress
Init ==
    /\ PoolInit
    /\ ProgressInit
    /\ RefIdle
    /\ CheckpointInit
    /\ ExtractIdle
    /\ MoreIdle

Next ==
    \/ Enter
    \/ \E i \in Items : SetResult(i)
    \/ AddDoneCallback
    \/ EnterReturn
    \/ \E t \in Threads : Callback(t)
    \/ \E t \in Threads : CallbackUpdateErrors(t)
    \/ \E t \in Threads : CallbackAdvance(t)
    \/ NextCheckDone
    \/ NextCheckAny
    \/ NextWait
    \/ NextPop
    \/ Exit

Spec == Init /\ [][Next]_vars

\* the pool with a user that may cancel pending tasks
CancelNext ==
    \/ Next
    \/ \E i \in Items : Cancel(i)

SpecCancel == Init /\ [][CancelNext]_vars

\* a Progress used by one thread
ProgressSessionInit ==
    /\ PoolIdle
    /\ ProgressInit
    /\ RefIdle
    /\ CheckpointInit
    /\ ExtractIdle
    /\ MoreIdle

ProgressNext ==
    \/ \E isError \in BOOLEAN, a \in Amounts : Advance(isError, a)
    \/ \E c \in {None} \cup {Some(v) : v \in Amounts},
          e \in {None} \cup {Some(IntOf(v)) : v \in Whole} : Update(c, e)

SpecProgress == ProgressSessionInit /\ [][ProgressNext]_vars

\* the checkpoint store called directly
CheckpointSessionInit ==
    /\ PoolIdle
    /\ ProgressInit
    /\ RefIdle
    /\ CheckpointInit
    /\ ExtractIdle
    /\ MoreIdle

CheckpointNext ==
    \/ \E prefix \in Prefixes, pid \in Pids, contents \in SavedLists :
          SaveCheckpointFile(prefix, pid, contents)
    \/ \E prefix \in Prefixes : LoadCheckpointData(prefix, ExtractorDeleteOnLoad)
    \/ \E prefix \in Prefixes : LoadCheckpointData(prefix, FALSE)

SpecCheckpoint == CheckpointSessionInit /\ [][CheckpointNext]_vars

\* extraction runs over one source tree, one after the other
ExtractInit ==
    /\ PoolIdle
    /\ ProgressInit
    /\ RefIdle
    /\ CheckpointInit
    /\ ExtractIdle
    /\ MoreIdle

ExtractNext ==
    \/ \E pid \in Pids, checkpoint \in 0..MaxCheckpoint, use_checkpoint \in BOOLEAN,
          transform \in Transforms :
          GetResults(pid, checkpoint, use_checkpoint, transform)
    \/ \E file \in SourceFiles : PoolYield(file)
    \/ PoolStop
    \/ \E transformRaises \in BOOLEAN : ForFunction(transformRaises)
    \/ Crash

SpecExtract == ExtractInit /\ [][ExtractNext]_vars

\* one correlation of a source dataset with a sequence of decompiled functions
CorrelateInit ==
    /\ PoolIdle
    /\ ProgressInit
    /\ RefIdle
    /\ CheckpointInit
    /\ ExtractIdle
    /\ CorrInit
    /\ MultiIdle
    /\ ManageIdle
    /\ OtherIdle

CorrelateNext ==
    \/ BuildSourceDataset
    \/ BuildIndex
    \/ \E sub \in SubNames : MapFunction(sub)
    \/ BuildDataset

SpecCorrelate == CorrelateInit /\ [][CorrelateNext]_vars

\* one call of multi_progress with two pools
MultiSessionInit ==
    /\ PoolIdle
    /\ ProgressInit
    /\ RefIdle
    /\ CheckpointInit
    /\ ExtractIdle
    /\ CorrIdle
    /\ MultiInit
    /\ ManageIdle
    /\ OtherIdle

MultiNext ==
    \/ SubmitDriver
    \/ LiveEnter
    \/ \E raises \in BOOLEAN : LiveExit(raises)
    \/ WaitFutures
    \/ ExecutorExit
    \/ \E p \in Pools : DriverEnter(p)
    \/ \E p \in Pools, i \in PoolItems : TaskDone(p, i)
    \/ \E p \in Pools, i \in PoolItems : TaskCallback(p, i)
    \/ \E p \in Pools : DriverNext(p)
    \/ \E p \in Pools : DriverPop(p)
    \/ \E p \in Pools : DriverExit(p)
    \/ \E p \in Pools : DriverExtend(p)

SpecMulti == MultiSessionInit /\ [][MultiNext]_vars

\* what the tasks of a pool do in such a session: all succeed, or the first
\* item raises
DisplayOutcomes ==
    {[i \in PoolItems |-> "result"],
     [i \in PoolItems |-> IF i = 1 THEN "raise" ELSE "result"]}

\* a session in which the pools are either all passed to multi_progress or
\* all called by their user, one after the other or side by side
DisplayInit ==
    /\ PoolIdle
    /\ ProgressInit
    /\ RefIdle
    /\ CheckpointInit
    /\ ExtractIdle
    /\ CorrIdle
    /\ ManageIdle
    /\ OtherIdle
    /\ mpOutcome \in [Pools -> DisplayOutcomes]
    /\ mpFuture = [p \in Pools |-> [i \in PoolItems |-> "unsubmitted"]]
    /\ mpNew = [p \in Pools |-> <<>>]
    /\ mpGot = [p \in Pools |-> <<>>]
    /\ sinks = [p \in Pools |-> <<>>]
    /\ drvpc = [p \in Pools |-> "unsubmitted"]
    /\ multiFlag = [p \in Pools |-> FALSE]
    /\ ownProgress = [p \in Pools |-> "none"]
    /\ rows = <<>>
    /\ live = "none"
    /\ synpc \in {"submit", "idle"}
    /\ bodyRaised = FALSE

DisplayNext ==
    \/ MultiNext
    \/ \E p \in Pools : DirectCall(p)

SpecDisplay == DisplayInit /\ [][DisplayNext]_vars

\* one use of manage, or one call of execute_command
ManageSessionInit ==
    /\ PoolIdle
    /\ ProgressInit
    /\ RefIdle
    /\ CheckpointInit
    /\ ExtractIdle
    /\ CorrIdle
    /\ MultiIdle
    /\ ManageIdle
    /\ OtherIdle

ManageNext ==
    \/ \E cleanup_command \in BOOLEAN, ignore_build_errors \in OptionalBools,
          ignore_cleanup_errors \in OptionalBools :
          Manage(cleanup_command, ignore_build_errors, ignore_cleanup_errors)
    \/ \E b \in CommandErrorHandlers, c \in CommandErrorHandlers : NewManageConfig(b, c)
    \/ \E handler \in CommandErrorHandlers : CallExecuteCommand(handler)
    \/ \E fails \in BOOLEAN : SubprocessRun(fails)
    \/ \E result \in PromptChoices : PromptAsk(result)
    \/ \E raises \in BOOLEAN : PipelineBody(raises)

SpecManage == ManageSessionInit /\ [][ManageNext]_vars

ConstructInit ==
    /\ PoolIdle
    /\ ProgressInit
    /\ RefIdle
    /\ CheckpointInit
    /\ ExtractIdle
    /\ MoreIdle

ConstructNext ==
    \/ \E args \in ExtractArgs : NewExtractConfig(args)
    \/ \E args \in ExtractArgs : CallableExtractorInit(args)
    \/ ProcessPoolProgressInit
    \/ ExtractorCall

SpecConstruct == ConstructInit /\ [][ConstructNext]_vars

FunctionInit == ConstructInit

AnyFields ==
    {Fields(u, p, d, n, s, e, c, m) :
        u \in FnUids, p \in FnPaths, d \in Definitions, n \in FunctionNames,
        s \in StartBytes, e \in EndBytes, c \in ClassNames, m \in Metadatas}

FunctionNext ==
    \/ \E r \in AnyFields : NewSourceFunction(r)
    \/ \E r \in AnyFields : FromJson(r)
    \/ \E p \in FnPaths, d \in Definitions, n \in FunctionNames, s \in StartBytes,
          e \in EndBytes, c \in ClassNames, m \in Metadatas :
          ExtractFunction(p, d, n, s, e, c, m)
    \/ \E p \in FnPaths, d \in Definitions, s \in StartBytes, e \in EndBytes,
          m \in Metadatas : ExtractAgain(p, d, s, e, m)
    \/ \E d \in Definitions, n \in {NoValue} \cup {<<x>> : x \in FunctionNames},
          m \in Metadatas : CallWithDefinition(d, n, m)
    \/ \E m \in Metadatas : CallWithMetadata(m)

SpecFunction == FunctionInit /\ [][FunctionNext]_vars

StripSessionInit ==
    /\ PoolIdle
    /\ ProgressInit
    /\ RefIdle
    /\ CheckpointInit
    /\ ExtractIdle
    /\ CorrIdle
    /\ MultiIdle
    /\ ManageIdle
    /\ CtorIdle
    /\ FnIdle
    /\ StripInit
    /\ DecIdle

StripNext ==
    \/ CallToStripped
    \/ StripNode
    \/ StripReturn

SpecStrip == StripSessionInit /\ [][StripNext]_vars

\* a session that registers decompilers and decompiles batches of binaries
DecompileInit == ConstructInit

DecompileNext ==
    \/ \E name \in DecompilerNames, file \in DecompilerFiles,
          class_name \in DecompilerClasses : DecompilerSet(name, file, class_name)
    \/ DecompilerSetCreate
    \/ \E outcomes \in [Bins -> BinOutcomes] : Decompile(outcomes)
    \/ \E bin \in Bins : DecompileRun(bin)
    \/ DecompileCollect
    \/ DecompileReturn

SpecDecompile == DecompileInit /\ [][DecompileNext]_vars

\* ------------------------------------------- ProcessPoolProgress: claims

Raised == {i \in Items : outcome[i] = "raise"}
Succeeded == Items \ Raised
InSeq(s, x) == \E k \in 1..Len(s) : s[k] = x
PosIn(s, x) == CHOOSE k \in 1..Len(s) : s[k] = x
PullPcs == {"check_done", "check_any", "wait", "pop"}
Pull == NextCheckDone \/ NextCheckAny \/ NextWait \/ NextPop
CallbacksIdle == \A t \in Threads : cbpc[t] = "none"

\* C1 (conservation): once the pool has been iterated to end-of-sequence and its
\* scope left, the pulls have yielded exactly N - M results and errors = M, so
\* that yielded + errors = submitted.
C1_Conservation ==
    mainpc = "done" =>
        /\ Len(yielded) = NumItems - Cardinality(Raised)
        /\ errors = Cardinality(Raised)
        /\ Len(yielded) + errors = NumItems

\* C2 (forward progress of the pull): when every task has finished, every
\* callback has returned and the ready-queue is empty, a pull that is under way
\* can take its next step (return a result or signal end-of-sequence).
C2_PullNeverBlocksForever ==
    (mainpc \in PullPcs /\ AllDone /\ CallbacksIdle /\ new_results = <<>>)
        => ENABLED Pull

\* C3 (partial-failure isolation): at the end of the pool's scope the error
\* counter has advanced by one for each item that raised, no raised item ever
\* entered the ready-queue, and the result of every sibling item was yielded.
C3_PartialFailureIsolation ==
    mainpc = "done" =>
        /\ errors = Cardinality(Raised)
        /\ \A i \in Raised : ~InSeq(appended, i)
        /\ \A i \in Succeeded : InSeq(yielded, i)

\* C4 (completion order): results are yielded in the order in which their
\* callbacks appended them to the ready-queue.
C4_CompletionOrder ==
    \A p, q \in 1..Len(yielded) :
        p < q => PosIn(appended, yielded[p]) < PosIn(appended, yielded[q])

\* C5 (no lost increment): when every completion callback has returned, the
\* errors counter has grown by the number of advance(errors=True) calls and the
\* completed counter by the number of advance() calls.
C5_NoLostIncrement ==
    (mainpc = "done" /\ CallbacksIdle) =>
        /\ errors = Cardinality(Raised)
        /\ completed = FloatUnit * Cardinality(Succeeded)

\* ------------------------------------------------------- Progress: claims

FilesAfter(k) == IF k < Len(ckHist) THEN ckHist[k + 1].before ELSE files
Count(q, x) == Cardinality({k \in 1..Len(q) : q[k] = x})
SameItems(q, r) ==
    /\ Len(q) = Len(r)
    /\ \A k \in 1..Len(q) : Count(q, q[k]) = Count(r, q[k])
RECURSIVE CountInFiles(_, _, _)
CountInFiles(fs, names, x) ==
    IF names = {} THEN 0
    ELSE LET n == CHOOSE m \in names : TRUE
         IN  Count(fs[n], x) + CountInFiles(fs, names \ {n}, x)
RECURSIVE TotalLen(_, _)
TotalLen(fs, names) ==
    IF names = {} THEN 0
    ELSE LET n == CHOOSE m \in names : TRUE
         IN  Len(fs[n]) + TotalLen(fs, names \ {n})
IsLoad(k, prefix) ==
    /\ k \in 1..Len(ckHist)
    /\ ckHist[k].op = "load"
    /\ ckHist[k].prefix = prefix
    /\ ckHist[k].delete_on_load

\* C7 (round trip): with no checkpoint file for the prefix, save(prefix, items)
\* followed by load(prefix) returns exactly the records saved, in any order, and
\* an immediate second load(prefix) returns the empty list.
C7_RoundTrip ==
    \A k \in 1..Len(ckHist) :
        (/\ ckHist[k].op = "save"
         /\ GetCheckpointFiles(ckHist[k].before, ckHist[k].prefix) = {}
         /\ IsLoad(k + 1, ckHist[k].prefix))
        => /\ SameItems(ckHist[k + 1].returned, ckHist[k].contents)
           /\ IsLoad(k + 2, ckHist[k].prefix) => ckHist[k + 2].returned = <<>>

\* C8 (at-most-once consumption): a deleting load(prefix) returns the contents of
\* every file matching the prefix, whichever process wrote it, each exactly once,
\* and removes those files and no other: no matching file remains and a load
\* that follows at once returns nothing.
C8_LoadConsumesEveryFile ==
    \A k \in 1..Len(ckHist) :
        IsLoad(k, ckHist[k].prefix) =>
            LET h == ckHist[k]
                matching == {n \in DOMAIN h.before : GlobMatches(h.prefix, n)}
            IN  /\ Len(h.returned) = TotalLen(h.before, matching)
                /\ \A j \in 1..Len(h.returned) :
                      Count(h.returned, h.returned[j])
                          = CountInFiles(h.before, matching, h.returned[j])
                /\ \A n \in DOMAIN FilesAfter(k) : ~GlobMatches(h.prefix, n)
                /\ \A n \in DOMAIN h.before \ matching :
                      n \in DOMAIN FilesAfter(k) /\ FilesAfter(k)[n] = h.before[n]
                /\ IsLoad(k + 1, h.prefix) => ckHist[k + 1].returned = <<>>

\* C8 witness: a deleting load merged the non-empty files of two processes
C8_Witness ==
    \E k \in 1..Len(ckHist) :
        /\ IsLoad(k, EXTRACTOR_CHECKPOINT_PREFIX)
        /\ \E n, m \in GetCheckpointFiles(ckHist[k].before, ckHist[k].prefix) :
              /\ n.pid # m.pid
              /\ ckHist[k].before[n] # <<>>
              /\ ckHist[k].before[m] # <<>>
        /\ Len(ckHist[k].returned) >= 2

\* C9 (save): save(prefix, items) by process pid leaves exactly one more or the
\* same files, writes <prefix>_<pid>.json with the items of this save only, and
\* leaves every other file as it was.
C9_SaveWritesOwnFileOnly ==
    \A k \in 1..Len(ckHist) :
        ckHist[k].op = "save" =>
            LET h == ckHist[k]
                name == [prefix |-> h.prefix, pid |-> h.pid]
                after == FilesAfter(k)
            IN  /\ DOMAIN after = DOMAIN h.before \cup {name}
                /\ Len(after[name]) = Len(h.contents)
                /\ \A j \in 1..Len(h.contents) :
                      /\ after[name][j].type = "dict"
                      /\ after[name][j].uid = h.contents[j].uid
                      /\ after[name][j].path = h.contents[j].path
                      /\ after[name][j].name = h.contents[j].name
                /\ \A n \in DOMAIN h.before \ {name} : after[n] = h.before[n]

\* C9 witness: a process replaced its own non-empty snapshot by different items
\* while the file of another process with the same prefix existed
C9_Witness ==
    \E k \in 1..Len(ckHist) :
        /\ ckHist[k].op = "save"
        /\ LET h == ckHist[k]
               name == [prefix |-> h.prefix, pid |-> h.pid]
           IN  /\ name \in DOMAIN h.before
               /\ h.before[name] # <<>>
               /\ Len(h.contents) > 0
               /\ h.before[name] # FilesAfter(k)[name]
               /\ \E m \in DOMAIN h.before : m.prefix = h.prefix /\ m.pid # h.pid

\* ------------------------------------------------- get_results: claims

\* the JSON form of a result list that holds records and loaded checkpoint data
Serialized(rs) ==
    [k \in 1..Len(rs) |-> IF HasToJson(rs[k]) THEN ToJson(rs[k]) ELSE rs[k]]
RunStarted == runpc \in {"pool", "function", "returned", "failed"}
OwnFile == [prefix |-> EXTRACTOR_CHECKPOINT_PREFIX, pid |-> config.pid]

\* C10 (checkpoint cadence): with checkpoint interval c > 0 a save is made each
\* time the length of the accumulated results, loaded checkpoint data included,
\* reaches a multiple of c, and the save holds all results accumulated so far;
\* starting with no loaded data, K results make floor(K / c) saves; with c = 0
\* there is no save.
C10_CheckpointCadence ==
    RunStarted =>
        /\ config.checkpoint = 0 => saves = 0
        /\ config.checkpoint > 0 =>
              /\ saves = (Len(results) \div config.checkpoint)
                            - (loaded \div config.checkpoint)
              /\ saves > 0 =>
                    /\ OwnFile \in DOMAIN files
                    /\ files[OwnFile] =
                          Serialized(SubSeq(results, 1,
                              (Len(results) \div config.checkpoint) * config.checkpoint))

\* ------------------------------------------------ crash recovery: claims

\* what a run with no transform, no loaded checkpoint and no interruption gets
FromScratchRecords ==
    UNION {{Extract(file)[k] : k \in 1..Len(Extract(file))} : file \in SourceFiles}
FromScratchUids == {r.uid : r \in FromScratchRecords}
Keys(d) == {d[k].key : k \in 1..Len(d)}
DistinctKeys(d) == \A j, k \in 1..Len(d) : j # k => d[j].key # d[k].key
Drained == runpc = "returned" /\ todo = {} /\ functions = <<>>
\* the run started by loading checkpoints after a run that was killed after
\* its 2nd save, and makes checkpoint saves of its own
Resumed ==
    /\ RunStarted
    /\ prevRun.end = "crashed" /\ prevRun.saves >= 2
    /\ config.use_checkpoint /\ config.checkpoint > 0 /\ config.transform = "None"

\* C11: a run that resumes after a run killed after its 2nd checkpoint save
\* completes without error, and the SourceCodeDataset built from its results
\* holds every uid of an uninterrupted run exactly once.
C11_CrashRecovery ==
    Resumed =>
        /\ runpc # "failed"
        /\ Drained =>
              /\ \A k \in 1..Len(results) : HasUid(results[k])
              /\ Keys(SourceCodeDataset(results)) = FromScratchUids
              /\ DistinctKeys(SourceCodeDataset(results))

Uids(fs) == [k \in 1..Len(fs) |-> fs[k].uid]
PairUids(ms) == [k \in 1..Len(ms) |-> ms[k][1].uid]
\* the last position at which a uid occurs
LastWith(uids, u) ==
    CHOOSE k \in 1..Len(uids) : uids[k] = u /\ \A j \in (k + 1)..Len(uids) : uids[j] # u
OneEntryPerUid(d, items, uids) ==
    /\ DistinctKeys(d)
    /\ Keys(d) = {uids[k] : k \in 1..Len(uids)}
    /\ \A e \in 1..Len(d) : d[e].value = items[LastWith(uids, d[e].key)]

\* C13: a Dataset built from a result list (source or decompiled) has exactly
\* one entry per distinct uid of the list, and the entry of a uid is the last
\* record of the list with that uid.
C13_UidUnique ==
    /\ corrpc \in {"index", "map", "built", "raised"} =>
          OneEntryPerUid(source_dataset, source_functions, Uids(source_functions))
    /\ corrpc = "built" => OneEntryPerUid(dataset, mappings, PairUids(mappings))

\* both datasets were built from a list that repeats a uid with another record
C13_Witness ==
    /\ corrpc = "built"
    /\ Len(source_functions) = 2 /\ Len(source_dataset) = 1
    /\ source_functions[1] # source_functions[2]
    /\ Len(mappings) = 2 /\ Len(dataset) = 1
    /\ mappings[1] # mappings[2]

\* --------------------------------------------------- correlation: claims

Indexed == corrpc \in {"map", "built", "raised"}
\* the Correlation Keys of the source dataset
SourceKeys == {GetFunctionName(source_dataset[j].key) : j \in 1..Len(source_dataset)}
\* the Source Function Records of the source dataset that share a key
SourcesNamed(name) ==
    {source_dataset[j].value : j \in {i \in 1..Len(source_dataset) :
                                        GetFunctionName(source_dataset[i].key) = name}}
Matched(k) == decompiled_functions[k].name \in SourceKeys
MatchedBefore(n) == {k \in 1..(n - 1) : k <= Len(decompiled_functions) /\ Matched(k)}
\* the last matched record supplied with the uid of record k
LastMatched(k) ==
    \A l \in (k + 1)..Len(decompiled_functions) :
        Matched(l) => decompiled_functions[l].uid # decompiled_functions[k].uid
PosOfKey(d, key) == CHOOSE e \in 1..Len(d) : d[e].key = key
FirstMatched(uid) ==
    CHOOSE k \in 1..Len(decompiled_functions) :
        /\ Matched(k) /\ decompiled_functions[k].uid = uid
        /\ \A j \in 1..(k - 1) : ~(Matched(j) /\ decompiled_functions[j].uid = uid)

\* C16: in the dataset the correlation returns, every Decompiled Function
\* Record whose key is in the index has an entry under its uid, and the entry
\* pairs the record (a Dataset has one entry per uid: the last record supplied,
\* when matched records share a uid) with a nested Source dataset holding
\* exactly the Source Function Records of that key.
C16_Pairing ==
    corrpc = "built" =>
        \A k \in 1..Len(decompiled_functions) :
            Matched(k) =>
                LET d == decompiled_functions[k] IN
                /\ HasKey(dataset, d.uid)
                /\ LastMatched(k) =>
                      LET entry == GetItem(dataset, d.uid) IN
                      /\ entry[1] = d
                      /\ DistinctKeys(entry[2])
                      /\ {entry[2][e].value : e \in 1..Len(entry[2])} = SourcesNamed(d.name)
                      /\ Len(entry[2]) = Cardinality(SourcesNamed(d.name))

\* two Source Function Records share the key of the one decompiled record
C16_Witness ==
    /\ corrpc = "built" /\ ~stripped
    /\ Len(source_dataset) = 2
    /\ Len(decompiled_functions) = 1
    /\ Len(dataset) = 1
    /\ Len(dataset[1].value[2]) = 2

\* C17: a Decompiled Function Record whose key matches no Source Function
\* Record adds no entry and raises nothing; when no supplied record matches,
\* the correlation returns an empty dataset.
C17_Miss ==
    /\ corrpc = "raised" => Matched(dk)
    /\ Indexed => Len(mappings) <= Cardinality(MatchedBefore(dk))
    /\ (Indexed /\ ~stripped) =>
          /\ Len(mappings) = Cardinality(MatchedBefore(dk))
          /\ \A m \in 1..Len(mappings) : mappings[m][1].name \in SourceKeys
    /\ (Indexed /\ \A k \in 1..Len(decompiled_functions) : ~Matched(k)) =>
          /\ corrpc # "raised"
          /\ mappings = <<>>
          /\ dataset = <<>>

\* a correlation ended with a record that matched nothing left out
C17_Witness ==
    /\ corrpc = "built"
    /\ Len(source_dataset) > 0
    /\ Len(decompiled_functions) = 2
    /\ ~Matched(1) /\ Matched(2)
    /\ Len(dataset) = 1

RECURSIVE MapAll(_)
\* the mappings of the first n decompiled functions with the strip flag unset
MapAll(n) ==
    IF n = 0 THEN <<>>
    ELSE MapOne(MapAll(n - 1), decompiled_functions[n], potential_mappings)
\* the uid and the nested group of each entry
Groups(d) == {<<d[e].key, d[e].value[2]>> : e \in 1..Len(d)}

\* C18: with the strip flag set the correlation does not raise, and the
\* dataset has the entry uids and nested groups it has with the flag unset.
C18_Stripped ==
    stripped =>
        /\ corrpc # "raised"
        /\ corrpc = "built" =>
              Groups(dataset) =
                  Groups(DecompiledCodeDataset(MapAll(Len(decompiled_functions))))

\* C19: the entries of the dataset the correlation returns are in the order
\* in which the matched records were supplied (an entry stands where its uid
\* was first matched).
C19_Order ==
    corrpc = "built" =>
        /\ Keys(dataset) = {decompiled_functions[k].uid : k \in MatchedBefore(dk)}
        /\ \A i, j \in 1..Len(dataset) :
              i < j => FirstMatched(dataset[i].key) < FirstMatched(dataset[j].key)

\* two matched records with distinct uids gave two entries
C19_Witness ==
    /\ corrpc = "built" /\ ~stripped
    /\ Len(decompiled_functions) = 2
    /\ Len(dataset) = 2
    /\ dataset[1].key = decompiled_functions[1].uid
    /\ dataset[2].key = decompiled_functions[2].uid

\* ------------------------------------------------ multi_progress: claims

ScopeLeft == synpc \in {"done", "raised"}
\* the results of the successful items of a pool
SucceededOf(p) == {<<p, i>> : i \in {j \in PoolItems : mpOutcome[p][j] = "result"}}
InSink(p) == {sinks[p][k] : k \in 1..Len(sinks[p])}

\* C14: when the scope of multi_progress has been left, every sink holds one
\* entry per successful item of its pool and no result of another pool.
C14_Draining ==
    ScopeLeft =>
        \A p \in Pools :
            /\ InSink(p) = SucceededOf(p)
            /\ Len(sinks[p]) = Cardinality(SucceededOf(p))

\* C15: the shared live display is torn down only after every driver has
\* drained its pool and finished.
C15_TeardownAfterDrain ==
    live = "stopped" => \A p \in Pools : drvpc[p] = "finished"

\* --------------------------------------------------------- manage: claims

Managed == phase # "idle" /\ command \in {"build", "cleanup"}

\* C20: when the build command fails in manage (error handling none), manage
\* raises before the pipeline phase: the body of the with statement never
\* runs and the cleanup command is never run.
C20_BuildFailureRaises ==
    (Managed /\ cmdFailed["build"]) =>
        /\ phase = "raised"
        /\ ~bodyRan
        /\ cmdRuns["cleanup"] = 0

\* execute_command was called on its own with the given handler
Direct(handler) ==
    phase # "idle" /\ command = "direct" /\ error_handler = handler

\* the command of the current execute_command has been run and has returned
\* or raised
Returned == cmdpc = "none" /\ phase \notin {"idle", "building", "command", "cleaning"}

\* C21: when the build command fails under the policy ignore (manage called
\* with ignore_build_errors true, execute_command called with the handler
\* ignore), the command is run once, no prompt is issued, nothing is raised
\* and the pipeline phase follows as after a successful build.
C21_IgnoreContinues ==
    /\ (Managed /\ manage_args.ignore_build_errors = "True" /\ cmdFailed["build"]) =>
          /\ cmdRuns["build"] = 1
          /\ responses["build"] = <<>>
          /\ phase \in {"pipeline", "cleaning", "done", "raised"}
          /\ phase # "pipeline" => bodyRan
    /\ (Direct("ignore") /\ cmdFailed["direct"]) =>
          /\ cmdRuns["direct"] = 1
          /\ prompts = 0
          /\ phase = "done"

C21_Witness ==
    /\ Managed /\ manage_args.ignore_build_errors = "True" /\ cmdFailed["build"]
    /\ phase = "done" /\ bodyRan

AllRetry(rs) == \A k \in 1..Len(rs) : rs[k] = "retry"
Front(rs) == SubSeq(rs, 1, Len(rs) - 1)

C24_PhaseOrder ==
    Managed =>
        /\ bodyRan => cmdRuns["build"] >= 1 /\ phase # "building"
        /\ phase = "building" => command = "build"
        /\ cmdRuns["cleanup"] <= 1
        /\ (phase = "cleaning" \/ command = "cleanup" \/ cmdRuns["cleanup"] >= 1) =>
              bodyEnded /\ manage_args.cleanup_command
        /\ (phase = "raised" /\ ~bodyEnded) => cmdRuns["cleanup"] = 0

C24_Witness ==
    Managed /\ phase = "done" /\ cmdRuns["cleanup"] = 1 /\ bodyEnded

\* C25: when the build succeeds, the body ends normally and the cleanup
\* command fails under the cleanup policy none, the CalledProcessError is
\* raised out of manage.
C25_CleanupFailureRaises ==
    (Managed /\ manage_config.cleanup_error_handling = "none" /\ ~cmdFailed["build"]
       /\ bodyEnded /\ cmdFailed["cleanup"]) =>
        phase = "raised"

\* --------------------------------------------- configuration validation: claims

InvalidArgs(args) ==
    \/ args.checkpoint < 0
    \/ args.max_workers # NoValue /\ args.max_workers[1] <= 0
    \/ args.exclude_subpaths \cap args.exclusive_subpaths # {}

\* C26: a negative checkpoint interval, a zero or negative worker count and
\* overlapping include / exclude path sets are rejected while the extract
\* configuration or the extractor is built: with such arguments no extractor
\* is ever constructed and no item is submitted; the configuration object is
\* built only when its one defect is a worker count of zero, which the
\* construction of the pool rejects.
C26_RejectedAtConstruction ==
    (ctorpc # "idle" /\ InvalidArgs(ctor_args)) =>
        /\ submitted = 0
        /\ ctorpc \in {"raised", "pool", "config"}
        /\ ctorpc = "pool" => ExecutorRejects(ctor_args.max_workers)
        /\ ctorpc = "config" =>
              /\ ctor_args.max_workers = <<0>>
              /\ ctor_args.checkpoint >= 0
              /\ ctor_args.exclude_subpaths \cap ctor_args.exclusive_subpaths = {}

C26_Witness ==
    /\ ctorpc = "raised" /\ raisedAt = "pool" /\ ctor_args.max_workers = <<0>>
    /\ submitted = 0

\* ------------------------------------------------- SourceFunction: claims

\* C27: every SourceFunction that exists, whichever operation built it,
\* satisfies 0 <= start_byte < end_byte, and no record exists after a
\* construction that raised.
C27_ByteRange ==
    /\ fn # NoFunction => 0 <= fn.start_byte /\ fn.start_byte < fn.end_byte
    /\ fnRaised # "none" => fn = NoFunction

\* the uid the claim describes: "<file>::<Class.>name"
UidOf(file, class_name, name) ==
    IF class_name = NoValue THEN <<file, "::", name>>
    ELSE <<file, "::", class_name[1], ".", name>>

\* C28: the uid of a record built by from_source is "<file>::<Class.>name",
\* made of the file name of its path, its class name and its name only; a
\* second extraction of the same function has the same uid, whatever its
\* definition, byte range and metadata.
C28_DeterministicUid ==
    (fnOp = "from_source" /\ fn # NoFunction) =>
        /\ fn.uid = UidOf(FileName(fn.path), fn.class_name, fn.name)
        /\ fnPrev # NoFunction => fn.uid = fnPrev.uid

C28_Witness ==
    /\ fnOp = "from_source" /\ fn # NoFunction /\ fnPrev # NoFunction
    /\ fn.definition # fnPrev.definition
    /\ fn.end_byte # fnPrev.end_byte
    /\ fn.metadata # fnPrev.metadata
    /\ fn.path # fnPrev.path
    /\ fn.class_name # NoValue

\* --------------------------------------------------- cancellation: claims

\* a step of the callback of a cancelled task
CancelledCallbackStep ==
    \E t \in Threads :
        /\ cbpc[t] = "run"
        /\ futures[cbitem[t]] = "cancelled"
        /\ cbpc'[t] # cbpc[t]

InQueue(q, i) == \E k \in 1..Len(q) : q[k] = i

\* C29: the completion callback of a task cancelled before it started changes
\* neither the completed counter, nor the error counter, nor the ready-queue,
\* and a cancelled item is never queued or yielded.
C29_CancelledCallbackNoEffect ==
    /\ [][CancelledCallbackStep =>
             /\ completed' = completed
             /\ errors' = errors
             /\ new_results' = new_results]_vars
    /\ [](\A i \in Items : futures[i] = "cancelled" =>
              ~InQueue(new_results, i) /\ ~InQueue(yielded, i))

C29_Witness ==
    /\ mainpc = "done"
    /\ \E i \in Items : futures[i] = "cancelled" /\ registered[i]
                            /\ outcome[i] = "truthy"
    /\ \E i \in Items : InQueue(yielded, i)

\* ------------------------------------------------------ to_stripped: claims

RECURSIVE Contains(_, _)
\* old occurs in text
Contains(text, old) ==
    IF Len(text) < Len(old) THEN FALSE
    ELSE SubSeq(text, 1, Len(old)) = old \/ Contains(Tail(text), old)

\* the symbols of the record stripped first
OriginalSymbols == {strip_input.definition[k] : k \in 1..Len(strip_input.definition)}

\* word w with the mapping applied to it
Mapped(w) == IF HasKey(symbol_mapping, w) THEN <<GetItem(symbol_mapping, w)>> ELSE w

NoOriginalLeft ==
    \A s \in OriginalSymbols :
        /\ ~Contains(strip_assembly, s)
        /\ \A k \in 1..Len(strip_definition) : strip_definition[k] # s

\* C30: to_stripped applies one mapping per record: every occurrence of a
\* function symbol in the definition and in the assembly is replaced by that
\* symbol's placeholder, distinct symbols have distinct placeholders, and no
\* original symbol is left in the definition or assembly, also after the
\* stripped record is stripped again.
C30_UniformMapping ==
    /\ (strpc = "done" /\ strip_pass = 1) =>
          /\ \A k \in 1..Len(strip_definition) :
                strip_definition[k] = Mapped(strip_input.definition[k])
          /\ strip_assembly =
                Join([k \in 1..Len(strip_input.assembly) |->
                         Mapped(strip_input.assembly[k])])
    /\ strpc = "done" =>
          /\ \A j, k \in 1..Len(symbol_mapping) :
                j # k => symbol_mapping[j].value # symbol_mapping[k].value
          /\ NoOriginalLeft

\* ------------------------------------------------------- pool: more claims

\* C32: once __enter__ has submitted, and so in every state of a pull, every
\* item has been submitted exactly once whatever its task did since; the
\* callback of a task was called at most once, never before the task was done,
\* and exactly once when the scope has been left.
C32_SubmissionProtocol ==
    /\ \A i \in Items : submits[i] <= 1 /\ calls[i] <= 1
    /\ \A i \in Items : calls[i] = 1 => futures[i] \in {"finished", "cancelled"}
    /\ mainpc # "enter" => \A i \in Items : submits[i] = 1
    /\ mainpc = "done" => \A i \in Items : calls[i] = 1

C32_Witness ==
    /\ mainpc = "done"
    /\ \E i \in Items : outcome[i] = "raise" /\ submits[i] = 1 /\ calls[i] = 1
    /\ \E i \in Items : outcome[i] = "truthy" /\ InQueue(yielded, i)

\* C33: when __next__ has signalled end-of-sequence, every task is finished and
\* the result of every successfully completed task was yielded; stated for
\* the runs in which every result is truthy, where the queue's emptiness test
\* is exact, so that only the window between done() and the callback's append
\* can break it.
C33_EndOfSequenceSafe ==
    (\A i \in Items : outcome[i] # "falsy") =>
        (mainpc \in {"exit", "done"} =>
            /\ AllDone
            /\ \A i \in Succeeded : InQueue(yielded, i))


\* C34: whenever the ready-queue holds a result, whatever its value, a pull
\* that tests the queue treats it as non-empty: it neither ends the sequence
\* nor keeps waiting.
C34_ReadinessIgnoresValues ==
    (mainpc \in {"check_any", "wait"} /\ Len(new_results) > 0) =>
        AnyResults(new_results)


\* ---------------------------------------------- get_results: more claims

\* the records the run itself added to results, after the loaded ones
Added == {results[k] : k \in (loaded + 1)..Len(results)}
Skipped == {skipped[k] : k \in 1..Len(skipped)}
\* one pass of the loop over the functions of a file
FunctionPass == runpc = "function" /\ runpc' # "crashed"

\* C35: a pass of the result-collection loop whose transform raises leaves the
\* results, the number of saves and the checkpoint files as they were and goes
\* on with the loop; any other pass appends its function; so between two files
\* and at the return, each function of the files the pool has yielded is
\* either skipped, because its transform raised, or among the added results.
C35_TransformFailureIsolated ==
    /\ [][FunctionPass =>
            IF skipped' # skipped
            THEN /\ skipped' = Append(skipped, Head(functions))
                 /\ UNCHANGED <<results, saves, files>>
                 /\ runpc' \in {"pool", "function"}
            ELSE results' = Append(results, Head(functions))]_vars
    /\ [](runpc \in {"pool", "returned"} =>
            \A file \in batch \ todo : \A k \in 1..Len(Extract(file)) :
                (Extract(file)[k] \in Added) # (Extract(file)[k] \in Skipped))

C35_Witness ==
    /\ runpc = "returned"
    /\ todo = {}
    /\ skipped = <<SourceFunction("a.c", "f")>>
    /\ SourceFunction("a.c", "g") \in Added
    /\ SourceFunction("b.c", "f") \in Added


\* C36: the pool of every run, whatever the run loaded, is given every
\* extractable file of the tree, as in a run that loads nothing; the loaded
\* entries are the first entries of the result list and the records the run
\* adds come after them.
C36_ResumeKeepsWorkSet ==
    RunStarted =>
        /\ batch = SourceFiles
        /\ loaded <= Len(results)
        /\ \A k \in 1..Len(results) : (k <= loaded) <=> ~HasToJson(results[k])

\* a run that loaded checkpoint entries was given every file, and returned
\* with the records of all of them after the loaded entries
C36_Witness ==
    /\ runpc = "returned"
    /\ config.use_checkpoint /\ loaded > 0
    /\ todo = {}
    /\ batch = SourceFiles
    /\ \A file \in SourceFiles : SourceFunction(file, "f") \in Added


\* a run that uses checkpoints starts: the only step that loads
LoadStep == runs' = runs + 1 /\ config'.use_checkpoint
\* the run made a save and returned normally
ReturnedWithSave == runpc = "returned" /\ saves >= 1
\* the results the last save of the run held
LastSnapshot ==
    SubSeq(results, 1, (Len(results) \div config.checkpoint) * config.checkpoint)

\* C37: a checkpoint file disappears only in the load of a run that uses
\* checkpoints; when a run that saved has returned normally its own file
\* exists and holds the last snapshot saved, and the next run that uses
\* checkpoints loads every entry of that file.
C37_RemovedOnlyByLoad ==
    /\ [][(\E name \in DOMAIN files : name \notin DOMAIN files') => LoadStep]_vars
    /\ [](ReturnedWithSave =>
            /\ OwnFile \in DOMAIN files
            /\ files[OwnFile] = ToJsonList(LastSnapshot))
    /\ [][(ReturnedWithSave /\ LoadStep) =>
            /\ loaded' >= Len(files[OwnFile])
            /\ \A k \in 1..Len(files[OwnFile]) :
                  \E j \in 1..loaded' : results'[j] = files[OwnFile][k]]_vars

\* a run that uses checkpoints has loaded what a run that returned after a
\* save left behind
C37_Witness ==
    /\ runs = 2 /\ config.use_checkpoint
    /\ prevRun.end = "returned" /\ prevRun.saves >= 1
    /\ loaded >= 1
    /\ files = [n \in {} |-> <<>>]


\* ------------------------------------------------ SourceFunction: more claims

\* a record as an extractor builds it: the uid is the one of its path, class
\* and name, and the byte range has the length of the definition
AsExtracted(r) ==
    /\ r.uid = CreateUid(r.path, r.name, r.class_name)
    /\ r.end_byte = r.start_byte + Len(r.definition)

\* C38: the record with_metadata returns has the uid, path, language,
\* definition, name, start_byte, end_byte and class_name of the record it was
\* called on; stated for the records an extractor builds.
C38_WithMetadataFrame ==
    (fnOp = "with_metadata" /\ fnRaised = "none" /\ AsExtracted(fnPrev)) =>
        \A field \in FieldNames \ {"metadata"} : fn[field] = fnPrev[field]


\* ------------------------------------------------------ decompiler: claims

\* C39: when set has returned, get() is the registration set was called with;
\* when set has raised because the decompiler could not be created, get() is
\* the registration that was in place before the call.
C39_Registration ==
    /\ (setpc = "idle" /\ setResult = "returned") =>
          /\ Get = setArgs
          /\ ~CreateFails(setArgs.symbol)
    /\ (setpc = "idle" /\ setResult = "raised") =>
          /\ Get = setBefore
          /\ CreateFails(setArgs.symbol)

\* a set that failed after a set that registered another decompiler
C39_Witness ==
    /\ setpc = "idle" /\ setResult = "raised" /\ nsets = 2
    /\ setBefore = RegisteredDecompiler("Mine", "mine.py", "Mine")
    /\ setArgs.symbol = <<"missing.py", "Mine">>
    /\ Get = setBefore

\* C31: no failure of decompile for one binary leaves the batch decompilation,
\* and when the batch has returned the result holds the records of every
\* binary whose decompilation succeeded.
C31_DecompileFailureIsolated ==
    /\ decpc # "raised"
    /\ decpc = "returned" =>
          \A b \in Bins : binOutcome[b] = "ok" =>
              \E k \in 1..Len(decompiled) : decompiled[k] = DecompiledOf(b)[1]

\* ------------------------------------------------- multi_progress: more claims

\* the driver of the pool has entered the pool's scope and not yet left it
InScope(p) == drvpc[p] \in {"next", "while", "exit"}
ScopeReleased(p) == drvpc[p] \in {"extend", "finished"}

\* C40: a pool passed to multi_progress is marked before its driver exists,
\* and its own display is never entered or exited; the own display of a pool
\* called outside multi_progress is entered while the pool's scope is open and
\* exited once the scope is released.
C40_DisplayOwnership ==
    \A p \in Pools :
        /\ (synpc # "idle" /\ drvpc[p] # "unsubmitted") =>
              multiFlag[p] /\ ownProgress[p] = "none"
        /\ synpc = "idle" =>
              /\ ~multiFlag[p]
              /\ InScope(p) => ownProgress[p] = "entered"
              /\ ScopeReleased(p) => ownProgress[p] = "exited"
              /\ drvpc[p] \in {"unsubmitted", "call"} => ownProgress[p] = "none"

\* the scope of multi_progress was left after every pool was drained, and no
\* pool has touched its own display
C40_Witness ==
    /\ synpc = "done"
    /\ \A p \in Pools : multiFlag[p] /\ drvpc[p] = "finished" /\ ownProgress[p] = "none"

=============================================================================
